---- MODULE Spec2Model ----
(***************************************************************************)
(* A model of the concert playlist builder.                                *)
(*                                                                         *)
(*   SpecResolve : SetlistFM.find_event_setlist (src/setlistfm_api.py),    *)
(*                 one action per HTTP request of the function and one for *)
(*                 its search of the exact-date record.                    *)
(*   SpecMatch   : _best_spotify_match_for_song (src/playlist_builder.py), *)
(*                 one action per catalog search.                          *)
(*   SpecFallback: _spotify_top_tracks_fallback (src/playlist_builder.py), *)
(*                 one action per catalog search.                          *)
(*   SpecCall    : search_track and _call_api (src/spotify_api.py), one    *)
(*                 action per pass of the retry loop.                      *)
(*   SpecCallLive: SpecCall with every step of _call_api taken in the end. *)
(*   SpecRun     : PlaylistBuilder.run (src/playlist_builder.py), the loop *)
(*                 over the rows of the sheet.                             *)
(*   SpecBuild   : _build_playlist_for_event (src/playlist_builder.py) and *)
(*                 add_tracks_to_playlist (src/spotify_api.py), one action *)
(*                 per batch.                                              *)
(*                                                                         *)
(* Python's None is the string None below; a value is "truthy" when it is  *)
(* neither None nor the empty string.  Text functions of the standard      *)
(* library and of rapidfuzz (lower, strip, token_set_ratio, ...) are       *)
(* tabulated on the finite vocabulary of the model with the values the     *)
(* library computes on those strings.                                      *)
(***************************************************************************)
EXTENDS Integers, Sequences, FiniteSets, TLC

VARIABLES
    \* ---- find_event_setlist ----
    q,                \* the arguments: [artist, venue, city, date]
    fpc,              \* position in find_event_setlist
    artist_sets,      \* the records the artist+date search returned, kept until the
                      \* loop of lines 157-161 has read them (nothing reads them later)
    headliner_entry,  \* <<>> (None) or <<e>>: the exact-date record of the artist search
    lookup,           \* <<>> or <<records>>: what the venue/city/date search returned
    requests,         \* the params of the HTTP requests sent so far
    answers,          \* how each request ended: "ok" (status 200), "status" (another
                      \* status), "transport" (requests.get raised)
    ret,              \* the value returned: [kind |-> "pending" | "none" | "normal" | "festival", ...]
    \* ---- _best_spotify_match_for_song ----
    song,             \* the arguments: [title, hint]
    mpc,              \* position in _best_spotify_match_for_song
    best,             \* [uri, score2]: best_uri and twice best_score
    searches,         \* the search_track calls made so far: [q, raised, results]
    mret,             \* <<>> or <<[uri, score2]>>: the pair returned
    \* ---- PlaylistBuilder.run ----
    n_events,         \* len(events): the number of rows read from the sheet
    idx,              \* the index of the row being processed (from 1)
    ev,               \* events[idx - 1], the row being processed; a row's content is
                      \* drawn when the loop reaches it (no step reads a row earlier)
    rpc,              \* position in the body of the loop over the rows
    catalog,          \* the tracks of the catalog, in the order searches list them
    event_data,       \* what find_event_setlist returned for the row
    band,             \* band_entries (festival) or openers (normal show), sorted
    pairs,            \* the (title_or_uri, artist_hint) pairs
    pi,               \* the index of the next pair to resolve
    resolved,         \* the id each pair handled so far resolved to (None: no match)
    track_uris,       \* the ids collected for the playlist
    seen,             \* the ids already collected
    queries,          \* the catalog searches made for the row so far
    outcome,          \* how the row ended: "" while it is processed
    dry_run,          \* self.dry_run
    lookup_fault,     \* <<>> or <<[request, kind]>>: the request of the lookup that failed
    sink_has,         \* what the sink answers when asked for a playlist of the row's
                      \* playlist name: "yes" (an id), "no" (None), "down" (it raises),
                      \* "absent" (it has no find_playlist_by_name)
    sink_ops,         \* the calls made on the sink for the row
    \* ---- _spotify_top_tracks_fallback ----
    fname,            \* the argument artist_name
    flimit,           \* the argument limit
    tpc,              \* position in _spotify_top_tracks_fallback
    fsearches,        \* the search_track calls made so far: [q, raised, results]
    fret,             \* <<>> or <<uris>>: the list returned
    \* ---- spotify_api.search_track and _call_api ----
    call_no,          \* the number of search_track calls started
    attempt,          \* the loop variable of _call_api
    cpc,              \* position in search_track
    asked,            \* an earlier search_track call sent a request to the API
    token,            \* the module's credentials and token cache: "no_credentials",
                      \* "none" (no valid cached token), "cached"
    tok_try,          \* the token requests get_access_token has made in this pass
    tsent,            \* the requests of the call in progress to the token endpoint:
                      \* [call, attempt, try, expired, answer]
    slept,            \* the seconds slept since the last request to the API was sent
    sent,             \* the requests of the call in progress to the API: [call,
                      \* attempt, gap, answer, header, waited]
    cret,             \* what search_track returned: "pending", "items", "empty", "raised"
    \* ---- _build_playlist_for_event and add_tracks_to_playlist ----
    b_dry,            \* self.dry_run
    b_uris,           \* the argument track_uris
    bpc,              \* position in _build_playlist_for_event
    pid,              \* what create_playlist returned: "" before the call
    offset,           \* the loop variable i of add_tracks_to_playlist
    batches,          \* the requests add_tracks_to_playlist sent: [uris, ok]
    add_ok,           \* what add_tracks_to_playlist returned: "pending", "true", "false"
    warned,           \* "Failed to add tracks to playlist" was logged
    b_ret             \* what _build_playlist_for_event returned: "pending", an id, "raised"

resolveVars == <<q, fpc, artist_sets, headliner_entry, lookup, requests, answers, ret>>
matchVars == <<song, mpc, best, searches, mret>>
sinkVars == <<dry_run, lookup_fault, sink_has, sink_ops>>
runVars == <<n_events, idx, ev, rpc, catalog, event_data, band, pairs, pi, resolved,
             track_uris, seen, queries, outcome, dry_run, lookup_fault, sink_has, sink_ops>>
fallbackVars == <<fname, flimit, tpc, fsearches, fret>>
callVars == <<call_no, asked, attempt, cpc, token, tok_try, tsent, slept, sent, cret>>
buildVars == <<b_dry, b_uris, bpc, pid, offset, batches, add_ok, warned, b_ret>>
vars == <<q, fpc, artist_sets, headliner_entry, lookup, requests, answers, ret,
          song, mpc, best, searches, mret,
          n_events, idx, ev, rpc, catalog, event_data, band, pairs, pi, resolved,
          track_uris, seen, queries, outcome, dry_run, lookup_fault, sink_has, sink_ops,
          fname, flimit, tpc, fsearches, fret,
          call_no, asked, attempt, cpc, token, tok_try, tsent, slept, sent, cret,
          b_dry, b_uris, bpc, pid, offset, batches, add_ok, warned, b_ret>>

-----------------------------------------------------------------------------
(* Bounds *)

\* longest list of records the artist+date search returns
MaxArtistSets == 2
\* longest list of records a venue/city/date search returns
MaxVenueSets == 3
\* longest list of tracks one catalog search returns
MaxResults == 3
\* most rows of the sheet
MaxRows == 2
\* longest list of records a venue/city/date search returns during a run
MaxLineup == 3
\* largest limit _spotify_top_tracks_fallback is called with
MaxLimit == 2
\* most consecutive calls of search_track
MaxCalls == 2
\* most full batches add_tracks_to_playlist has to send
MaxBatches == 2
\* most times the cached token is found expired during one search_track call
MaxExpiries == 1

-----------------------------------------------------------------------------
(* Python values *)

None == "None"

Truthy(x) == x # None /\ x # ""

\* a or b, for strings / None
Or(a, b) == IF Truthy(a) THEN a ELSE b

SeqsUpTo(S, n) == UNION {[1..k -> S] : k \in 0..n}

Range(s) == {s[i] : i \in 1..Len(s)}

\* str.lower() on the vocabulary
Lower(s) ==
    CASE s = "Alice" -> "alice"
      [] s = "Alise" -> "alise"
      [] s = "Bob"   -> "bob"
      [] s = "Bob "  -> "bob "
      [] s = "Carol" -> "carol"
      [] s = "Festival" -> "festival"
      [] s = "Yes"   -> "yes"
      [] s = "Unknown Artist" -> "unknown artist"
      [] OTHER       -> s

\* str.strip() on the vocabulary
Strip(s) ==
    CASE s = "Bob "  -> "Bob"
      [] s = "bob "  -> "bob"
      [] OTHER       -> s

\* _norm_text: lower, strip, keep alphanumerics and spaces, strip
_norm_text(s) == IF ~Truthy(s) THEN "" ELSE Strip(Lower(s))

\* rapidfuzz.fuzz.token_set_ratio on normalised names of the vocabulary:
\* 100 for equal token sets, else 100 * 2*LCS / (len a + len b) of the two words
\*   alice/alise: LCS "alie" -> 80;  alice/carol: LCS "al" -> 40;
\*   bob/carol: LCS "o" -> 25;  no common letter -> 0;  an empty string -> 0
token_set_ratio(a, b) ==
    CASE a = "" \/ b = ""                  -> 0
      [] a = b                             -> 100
      [] {a, b} = {"alice", "alise"}       -> 80
      [] {a, b} = {"alice", "carol"}       -> 40
      [] {a, b} = {"alise", "carol"}       -> 40
      [] {a, b} = {"bob", "carol"}         -> 25
      [] {a, b} = {"alice", "bob"}         -> 0
      [] {a, b} = {"alise", "bob"}         -> 0

\* SetlistFM._to_setlistfm_date: YYYY-MM-DD -> DD-MM-YYYY
_to_setlistfm_date(iso) ==
    CASE iso = "2024-05-01" -> "01-05-2024"
      [] iso = "2024-05-02" -> "02-05-2024"

headliner_threshold == 80

\* the number of records from which a venue/city/date result is a festival
FestivalMinEntries == 3

\* sorted(xs, key, reverse=True) is stable: the indices of keys in the order
\* Python's sort leaves them, largest key first, equal keys in input order
SortedDescIdx(keys) ==
    LET n == Len(keys)
        pos(i) == 1 + Cardinality({j \in 1..n :
                        keys[j] > keys[i] \/ (keys[j] = keys[i] /\ j < i)})
    IN  [k \in 1..n |-> CHOOSE i \in 1..n : pos(i) = k]

-----------------------------------------------------------------------------
(* The records of the setlist source *)

\* a song of a set block: a dict with a name, or a plain string
DictSong(name) == [name |-> name]

StrSong(text) == [text |-> text]

\* a set block whose songs are dicts with the given names
Block(songs, st) ==
    [song |-> [i \in 1..Len(songs) |-> DictSong(songs[i])], startTime |-> st]

\* a set block whose songs are plain strings
PlainBlock(songs, st) ==
    [song |-> [i \in 1..Len(songs) |-> StrSong(songs[i])], startTime |-> st]

VRec(name, sets, st, lu) ==
    [artist |-> name, sets |-> sets, startTime |-> st, lastUpdated |-> lu]

\* what a venue/city/date search can return
VenueRecords ==
    { VRec("Alice", <<Block(<<"Intro", "Hit">>, "21:00")>>, None, "2024-05-03"),
      VRec("alice", <<PlainBlock(<<"Hit", "">>, None), Block(<<"Encore", "">>, None)>>,
           None, None),
      VRec("Alise", <<Block(<<"Intro", "Hit", "Encore">>, None)>>, "21:00", "2024-05-02"),
      VRec("Bob",   <<Block(<<"Blues">>, "9:30")>>, None, "2024-05-02"),
      VRec("Bob ",  <<PlainBlock(<<"Blues", "Jam">>, None)>>, None, None),
      VRec("Carol", <<>>, "late", "2024-05-01"),
      VRec("Carol", <<Block(<<"Jam", "Jam">>, None)>>, "18:00", None),
      VRec("",      <<Block(<<"Intro">>, None)>>, None, None) }

ARec(date, type, venue, city) ==
    [eventDate |-> date, eventType |-> type, venue |-> venue, city |-> city]

\* what the artist+date search can return (the fields the function reads)
ArtistRecords ==
    { ARec("01-05-2024", "",         "Arena", "Paris"),
      ARec("01-05-2024", "Festival", "Arena", "Paris"),
      ARec("01-05-2024", "",         "",      ""),
      ARec("02-05-2024", "",         "Arena", "Paris"),
      ARec("2024-05-01", "festival", "",      "") }

Queries ==
    { [artist |-> a, venue |-> v[1], city |-> v[2], date |-> "2024-05-01"] :
        a \in {"Alice", "Bob"}, v \in {<<"The Hall", "Lyon">>, <<None, None>>} }

-----------------------------------------------------------------------------
(* SetlistFM helpers *)

RECURSIVE FilterTruthy(_)
FilterTruthy(s) ==
    IF s = <<>> THEN <<>>
    ELSE (IF Truthy(Head(s)) THEN <<Head(s)>> ELSE <<>>) \o FilterTruthy(Tail(s))

\* the songs one set block contributes: the name of a dict if it is truthy,
\* a plain string as it is
RECURSIVE ExtractRaw(_)
ExtractRaw(raw) ==
    IF raw = <<>> THEN <<>>
    ELSE LET s == Head(raw)
         IN  (IF "name" \in DOMAIN s
              THEN (IF Truthy(s.name) THEN <<s.name>> ELSE <<>>)
              ELSE <<s.text>>) \o ExtractRaw(Tail(raw))

\* SetlistFM._extract_songs: the songs of every set block, in order
RECURSIVE ExtractBlocks(_)
ExtractBlocks(sets) ==
    IF sets = <<>> THEN <<>>
    ELSE ExtractRaw(Head(sets).song) \o ExtractBlocks(Tail(sets))

_extract_songs(entry) == ExtractBlocks(entry.sets)

\* the startTime of the first set block that has one, else None
RECURSIVE FirstBlockStart(_)
FirstBlockStart(sets) ==
    IF sets = <<>> THEN None
    ELSE IF Truthy(Head(sets).startTime) THEN Head(sets).startTime
    ELSE FirstBlockStart(Tail(sets))

\* SetlistFM._gather_basic_entry
_gather_basic_entry(entry) ==
    LET st == FirstBlockStart(entry.sets)
    IN  [name        |-> entry.artist,
         songs       |-> _extract_songs(entry),
         startTime   |-> IF Truthy(st) THEN st
                         ELSE IF Truthy(entry.startTime) THEN entry.startTime ELSE None,
         lastUpdated |-> IF Truthy(entry.lastUpdated) THEN entry.lastUpdated ELSE None]

\* the festival branches' "deduplicate by artist name preserving order"
RECURSIVE DedupeLineup(_, _)
DedupeLineup(lineup, seenKeys) ==
    IF lineup = <<>> THEN <<>>
    ELSE LET b   == Head(lineup)
             nm  == Strip(b.name)
             key == Lower(nm)
         IN  IF ~Truthy(nm) \/ key \in seenKeys
             THEN DedupeLineup(Tail(lineup), seenKeys)
             ELSE <<b>> \o DedupeLineup(Tail(lineup), seenKeys \cup {key})

FestivalLineup(entries) ==
    DedupeLineup([i \in 1..Len(entries) |-> _gather_basic_entry(entries[i])], {})

FestivalResult(artist, venue, city, date, entries) ==
    [kind          |-> "festival",
     is_festival   |-> TRUE,
     festival_name |-> artist,
     venue         |-> venue,
     city          |-> city,
     date          |-> date,
     lineup        |-> FestivalLineup(entries)]

NoResult == [kind |-> "none"]
Pending  == [kind |-> "pending"]

MergeSongs_KeepAll(have, songs) == have \o songs

\* append the songs not yet in the list
RECURSIVE MergeSongs(_, _)
MergeSongs(have, songs) ==
    IF songs = <<>> THEN have
    ELSE MergeSongs(IF Head(songs) \in Range(have) THEN have
                    ELSE Append(have, Head(songs)), Tail(songs))

\* all set-block start times of a record, in order
BlockStarts(sets) == [i \in 1..Len(sets) |-> sets[i].startTime]

RECURSIVE FirstTruthy(_)
FirstTruthy(s) ==
    IF s = <<>> THEN None
    ELSE IF Truthy(Head(s)) THEN Head(s) ELSE FirstTruthy(Tail(s))

\* one pass of the artists_map loop for record c
MapAdd(map, c) ==
    LET nm  == c.artist
        key == Lower(nm)
    IN  IF ~Truthy(nm) THEN map
        ELSE LET known == \E i \in 1..Len(map) : map[i].key = key
                 m1 == IF known THEN map
                       ELSE Append(map, [key |-> key, name |-> nm, songs |-> <<>>,
                                         startTime |-> None, lastUpdated |-> None])
                 i  == CHOOSE j \in 1..Len(m1) : m1[j].key = key
                 st == FirstTruthy(BlockStarts(c.sets))
                 lu == c.lastUpdated
                 e  == m1[i]
             IN  [m1 EXCEPT ![i] =
                    [key         |-> e.key,
                     name        |-> e.name,
                     songs       |-> MergeSongs(e.songs, _extract_songs(c)),
                     startTime   |-> IF Truthy(st) /\ ~Truthy(e.startTime)
                                     THEN st ELSE e.startTime,
                     lastUpdated |-> IF Truthy(lu) /\ ~Truthy(e.lastUpdated)
                                     THEN lu ELSE e.lastUpdated]]

\* artists_map after the loop over all_entries, in insertion order
RECURSIVE ArtistsMapFrom(_, _)
ArtistsMapFrom(map, entries) ==
    IF entries = <<>> THEN map
    ELSE ArtistsMapFrom(MapAdd(map, Head(entries)), Tail(entries))

ArtistsMap(entries) == ArtistsMapFrom(<<>>, entries)

\* the score of one performer of artists_map against the queried artist
ScoreOf(artist, v) == token_set_ratio(_norm_text(artist), _norm_text(v.name))

\* scored: (score, name, v) for every performer, sorted by score, highest first
Scored(artist, map) ==
    LET raw  == [i \in 1..Len(map) |->
                    [score |-> ScoreOf(artist, map[i]), name |-> map[i].name, v |-> map[i]]]
        keys == [i \in 1..Len(raw) |-> raw[i].score]
        ord  == SortedDescIdx(keys)
    IN  [k \in 1..Len(raw) |-> raw[ord[k]]]

HeadlinerOf_AlwaysTopScore(scored) == scored[1]

\* the entry of scored that becomes the headliner (scored is not empty)
HeadlinerOf(scored) ==
    IF scored[1].score >= headliner_threshold
    THEN scored[1]
    ELSE LET keys == [i \in 1..Len(scored) |-> Len(scored[i].v.songs)]
         IN  scored[SortedDescIdx(keys)[1]]

OpenerRec(rec) ==
    [name |-> rec.name, songs |-> rec.songs,
     startTime |-> rec.startTime, lastUpdated |-> rec.lastUpdated]

OpenersOf_NoSkip(scored, headliner_name) ==
    [i \in 1..Len(scored) |-> OpenerRec(scored[i].v)]

\* the performers of scored other than the headliner, in scored's order
RECURSIVE OpenersOf(_, _)
OpenersOf(scored, headliner_name) ==
    IF scored = <<>> THEN <<>>
    ELSE (IF Head(scored).name = headliner_name THEN <<>>
          ELSE <<OpenerRec(Head(scored).v)>>) \o OpenersOf(Tail(scored), headliner_name)

\* the normal single-event flow
NormalResult(artist, venue, city, date, entries) ==
    LET scored == Scored(artist, ArtistsMap(entries))
    IN  IF scored = <<>> THEN NoResult
        ELSE LET h == HeadlinerOf(scored)
             IN  [kind            |-> "normal",
                  is_festival     |-> FALSE,
                  headliner       |-> h.name,
                  headliner_songs |-> h.v.songs,
                  openers         |-> OpenersOf(scored, h.name),
                  venue           |-> venue,
                  city            |-> city,
                  date            |-> date]

\* the first record of the artist search, whatever its date
FirstExactDate_Any(sets, date_ddmm) ==
    IF sets = <<>> THEN <<>> ELSE <<Head(sets)>>

\* the first record of the artist search with the exact date, as <<e>>, else <<>>
RECURSIVE FirstExactDate(_, _)
FirstExactDate(sets, date_ddmm) ==
    IF sets = <<>> THEN <<>>
    ELSE IF Head(sets).eventDate = date_ddmm THEN <<Head(sets)>>
    ELSE FirstExactDate(Tail(sets), date_ddmm)

\* ev.get("name", "") or venue or ""
ResolvedVenue(query, hentry) == Or(hentry[1].venue, Or(query.venue, ""))

ResolvedCity(query, hentry) == Or(hentry[1].city, Or(query.city, ""))

\* str(event_type).lower() == "festival"
MaybeFestival(hentry) == Lower(Or(hentry[1].eventType, "")) = "festival"

resolved_venue == ResolvedVenue(q, headliner_entry)
resolved_city  == ResolvedCity(q, headliner_entry)
maybe_festival == MaybeFestival(headliner_entry)

\* len(venue_sets) >= 3, len(all_entries) >= 3
ManyEntries_MoreThan3(entries) == Len(entries) > FestivalMinEntries

ManyEntries(entries) == Len(entries) >= FestivalMinEntries

\* what is returned after the venue search made when no exact-date record exists
VenueOutcome(query, venue_sets) ==
    IF ManyEntries(venue_sets)
    THEN FestivalResult(query.artist, query.venue, query.city, query.date, venue_sets)
    ELSE NoResult

\* what is returned after the search at the venue of the exact-date record
FinalOutcome(query, hentry, all_entries) ==
    IF MaybeFestival(hentry) \/ ManyEntries(all_entries)
    THEN FestivalResult(query.artist, ResolvedVenue(query, hentry),
                        ResolvedCity(query, hentry), query.date, all_entries)
    ELSE NormalResult(query.artist, ResolvedVenue(query, hentry),
                      ResolvedCity(query, hentry), query.date, all_entries)

-----------------------------------------------------------------------------
(* find_event_setlist, request by request *)

\* _best_spotify_match_for_song is not running
MatchIdle ==
    /\ song = [title |-> "", hint |-> ""]
    /\ mpc = "idle"
    /\ best = [uri |-> None, score2 |-> 0]
    /\ searches = <<>>
    /\ mret = <<>>

\* _spotify_top_tracks_fallback is not running
FallbackIdle ==
    /\ fname = ""
    /\ flimit = 0
    /\ tpc = "idle"
    /\ fsearches = <<>>
    /\ fret = <<>>

\* _build_playlist_for_event is not running
BuildIdle ==
    /\ b_dry = FALSE
    /\ b_uris = <<>>
    /\ bpc = "idle"
    /\ pid = ""
    /\ offset = 0
    /\ batches = <<>>
    /\ add_ok = "pending"
    /\ warned = FALSE
    /\ b_ret = "pending"

\* search_track is not running
CallIdle ==
    /\ call_no = 0
    /\ asked = FALSE
    /\ attempt = 0
    /\ cpc = "idle"
    /\ token = "none"
    /\ tok_try = 0
    /\ tsent = <<>>
    /\ slept = 0
    /\ sent = <<>>
    /\ cret = "pending"

\* no row: before the first and after the last
NoRow == [artist |-> None, date |-> None, venue |-> None, city |-> None,
          is_festival |-> ""]

\* PlaylistBuilder.run is not running
RunIdle ==
    /\ n_events = 0
    /\ idx = 0
    /\ ev = NoRow
    /\ rpc = "idle"
    /\ catalog = <<>>
    /\ event_data = Pending
    /\ band = <<>>
    /\ pairs = <<>>
    /\ pi = 0
    /\ resolved = <<>>
    /\ track_uris = <<>>
    /\ seen = {}
    /\ queries = <<>>
    /\ outcome = ""
    /\ dry_run = FALSE
    /\ lookup_fault = <<>>
    /\ sink_has = ""
    /\ sink_ops = <<>>

\* find_event_setlist is not running
ResolveIdle ==
    /\ q = [artist |-> "", venue |-> None, city |-> None, date |-> "2024-05-01"]
    /\ fpc = "idle"
    /\ artist_sets = <<>>
    /\ headliner_entry = <<>>
    /\ lookup = <<>>
    /\ requests = <<>>
    /\ answers = <<>>
    /\ ret = Pending

InitResolve ==
    /\ MatchIdle
    /\ RunIdle
    /\ FallbackIdle
    /\ CallIdle
    /\ BuildIdle
    /\ q \in Queries
    /\ fpc = "artist_search"
    /\ artist_sets = <<>>
    /\ headliner_entry = <<>>
    /\ lookup = <<>>
    /\ requests = <<>>
    /\ answers = <<>>
    /\ ret = Pending

ArtistParams == [artistName |-> q.artist, date |-> _to_setlistfm_date(q.date)]

VenueParams(venue, city) ==
    [venueName |-> venue, cityName |-> city, date |-> _to_setlistfm_date(q.date)]

Return(r) ==
    /\ ret' = r
    /\ fpc' = "done"

\* the ways a request fails: requests.get raises, or the status is not 200
Failures == {"transport", "status"}

\* request 1 raises, or answers with a status other than 200
ArtistSearchFails ==
    /\ fpc = "artist_search"
    /\ requests' = Append(requests, ArtistParams)
    /\ \E kind \in Failures : answers' = Append(answers, kind)
    /\ Return(NoResult)
    /\ UNCHANGED <<q, artist_sets, headliner_entry, lookup>>

\* request 1 answers 200 with artist_sets
ArtistSearch ==
    /\ fpc = "artist_search"
    /\ artist_sets' \in SeqsUpTo(ArtistRecords, MaxArtistSets)
    /\ requests' = Append(requests, ArtistParams)
    /\ answers' = Append(answers, "ok")
    /\ fpc' = "pick_headliner"
    /\ UNCHANGED <<q, headliner_entry, lookup, ret>>

\* the loop over artist_sets that looks for the record of the query's date
PickHeadliner ==
    /\ fpc = "pick_headliner"
    /\ headliner_entry' = FirstExactDate(artist_sets, _to_setlistfm_date(q.date))
    /\ fpc' = IF headliner_entry' = <<>> THEN "venue_search" ELSE "final_search"
    /\ artist_sets' = <<>>
    /\ UNCHANGED <<q, lookup, requests, answers, ret>>

\* request 2 raises, or answers with a status other than 200
VenueSearchFails ==
    /\ fpc = "venue_search"
    /\ requests' = Append(requests, VenueParams(q.venue, q.city))
    /\ \E kind \in Failures : answers' = Append(answers, kind)
    /\ Return(NoResult)
    /\ UNCHANGED <<q, artist_sets, headliner_entry, lookup>>

\* request 2 answers 200 with venue_sets
VenueSearch ==
    /\ fpc = "venue_search"
    /\ \E venue_sets \in SeqsUpTo(VenueRecords, MaxVenueSets) :
          /\ requests' = Append(requests, VenueParams(q.venue, q.city))
          /\ answers' = Append(answers, "ok")
          /\ lookup' = <<venue_sets>>
          /\ Return(VenueOutcome(q, venue_sets))
    /\ UNCHANGED <<q, artist_sets, headliner_entry>>

\* request 3 raises, or answers with a status other than 200
FinalSearchFails ==
    /\ fpc = "final_search"
    /\ requests' = Append(requests, VenueParams(resolved_venue, resolved_city))
    /\ \E kind \in Failures : answers' = Append(answers, kind)
    /\ Return(NoResult)
    /\ UNCHANGED <<q, artist_sets, headliner_entry, lookup>>

\* request 3 answers 200 with all_entries
FinalSearch ==
    /\ fpc = "final_search"
    /\ \E all_entries \in SeqsUpTo(VenueRecords, MaxVenueSets) :
          /\ requests' = Append(requests, VenueParams(resolved_venue, resolved_city))
          /\ answers' = Append(answers, "ok")
          /\ lookup' = <<all_entries>>
          /\ Return(FinalOutcome(q, headliner_entry, all_entries))
    /\ UNCHANGED <<q, artist_sets, headliner_entry>>

NextResolve ==
    \/ ArtistSearchFails /\ UNCHANGED <<matchVars, runVars, fallbackVars, callVars, buildVars>>
    \/ ArtistSearch /\ UNCHANGED <<matchVars, runVars, fallbackVars, callVars, buildVars>>
    \/ PickHeadliner /\ UNCHANGED <<matchVars, runVars, fallbackVars, callVars, buildVars>>
    \/ VenueSearchFails /\ UNCHANGED <<matchVars, runVars, fallbackVars, callVars, buildVars>>
    \/ VenueSearch /\ UNCHANGED <<matchVars, runVars, fallbackVars, callVars, buildVars>>
    \/ FinalSearchFails /\ UNCHANGED <<matchVars, runVars, fallbackVars, callVars, buildVars>>
    \/ FinalSearch /\ UNCHANGED <<matchVars, runVars, fallbackVars, callVars, buildVars>>

SpecResolve == InitResolve /\ [][NextResolve]_vars

-----------------------------------------------------------------------------
(* The catalog: what search_track returns *)

Track(uri, name, artists, popularity) ==
    [uri |-> uri, name |-> name, artists |-> artists, popularity |-> popularity]

Tracks ==
    { Track("spotify:track:1", "Hit",        <<"Alice">>,        70),
      Track("spotify:track:2", "Hit (Live)", <<"Alice">>,        40),
      Track("spotify:track:3", "Hit",        <<"Bob">>,          90),
      Track("spotify:track:4", "Blues",      <<"Bob", "Alice">>, 50),
      Track(None,              "Hit",        <<"Alice">>,        10),
      Track("spotify:track:6", "Blues",      <<"Carol">>,        20),
      Track("spotify:track:7", "Jam",        <<"Carol">>,        60) }

\* the words of a string after fuzzywuzzy's full_process (lower case, letters
\* and digits only), as fuzz.token_set_ratio splits them
Tokens(s) ==
    CASE s = "Hit"          -> {"hit"}
      [] s = "Hit (Live)"   -> {"hit", "live"}
      [] s = "Blues"        -> {"blues"}
      [] s = "Alice"        -> {"alice"}
      [] s = "Bob"          -> {"bob"}
      [] s = "Carol"        -> {"carol"}
      [] s = "Bob, Alice"   -> {"bob", "alice"}
      [] s = "Jam"          -> {"jam"}
      [] s = "Intro"        -> {"intro"}
      [] s = "Encore"       -> {"encore"}
      [] s = "alice"        -> {"alice"}
      [] s = "Alise"        -> {"alise"}
      [] s = "Bob "         -> {"bob"}
      [] s = ""             -> {}
      [] s = "spotify:track:1" -> {"spotify", "track", "1"}
      [] s = "spotify:track:2" -> {"spotify", "track", "2"}
      [] s = "spotify:track:3" -> {"spotify", "track", "3"}
      [] s = "spotify:track:4" -> {"spotify", "track", "4"}
      [] s = "spotify:track:6" -> {"spotify", "track", "6"}
      [] s = "spotify:track:7" -> {"spotify", "track", "7"}

\* ", ".join(names)
JoinNames(names) ==
    CASE names = <<>>               -> ""
      [] Len(names) = 1             -> names[1]
      [] names = <<"Bob", "Alice">> -> "Bob, Alice"

\* the ratio of two different words, difflib's SequenceMatcher(None, a, b):
\* 100 * 2 * M / (len a + len b), M the letters matched (alice/alise
\* "ali"+"e"; alice/carol and alise/carol "a","l"; carol/alice "l" only, the
\* matcher depends on the order of its arguments; bob/carol "o"; the other
\* pairs share no letter)
WordRatio(a, b) ==
    CASE {a, b} = {"alice", "alise"} -> 80
      [] a = "alice" /\ b = "carol"   -> 40
      [] a = "carol" /\ b = "alice"   -> 20
      [] {a, b} = {"alise", "carol"} -> 40
      [] {a, b} = {"bob", "carol"}   -> 25
      [] {a, b} = {"alice", "bob"}   -> 0
      [] {a, b} = {"alise", "bob"}   -> 0
      [] {a, b} = {"hit", "blues"}   -> 0
      [] {a, b} = {"hit", "jam"}     -> 0

\* fuzzywuzzy.fuzz.token_set_ratio on the vocabulary: 0 when a side has no
\* word, 100 when one word set contains the other, else the ratio of the
\* two words (the vocabulary compares no other pair of word sets)
fuzz_token_set_ratio(a, b) ==
    LET ta == Tokens(a)
        tb == Tokens(b)
    IN  IF ta = {} \/ tb = {} THEN 0
        ELSE IF ta \subseteq tb \/ tb \subseteq ta THEN 100
        ELSE WordRatio(CHOOSE x \in ta : Cardinality(ta) = 1,
                       CHOOSE y \in tb : Cardinality(tb) = 1)

-----------------------------------------------------------------------------
(* _best_spotify_match_for_song(song_title, artist_hint) *)

Songs == { [title |-> t, hint |-> h] : t \in {"Hit", ""}, h \in {"Alice", "Bob", ""} }

\* f"{song_title} {artist_hint}".strip(), as the words of the query
CombinedQuery(title, hint) == IF hint = "" THEN <<title>> ELSE <<title, hint>>

TitleQuery(title) == <<title>>

\* score_item, doubled: s1 + s2 (the code returns (s1 + s2) / 2.0)
score_item2(title, hint, item) ==
    fuzz_token_set_ratio(title, Or(item.name, ""))
        + fuzz_token_set_ratio(Or(hint, ""), JoinNames(item.artists))

BestStart_Zero == [uri |-> None, score2 |-> 0]

\* best_uri = None, best_score = -1.0
BestStart == [uri |-> None, score2 |-> -2]

\* the loop over the results of one search
RECURSIVE ScanResults(_, _, _, _)
ScanResults(title, hint, results, b) ==
    IF results = <<>> THEN b
    ELSE LET item == Head(results)
             sc   == score_item2(title, hint, item)
         IN  ScanResults(title, hint, Tail(results),
                IF Truthy(item.uri) /\ sc > b.score2
                THEN [uri |-> item.uri, score2 |-> sc] ELSE b)

NeedsTitleSearch_Always(b) == TRUE

\* "if not best_uri": the broader search is needed
NeedsTitleSearch(b) == ~Truthy(b.uri)

InitMatch ==
    /\ song \in Songs
    /\ mpc = "start"
    /\ best = BestStart
    /\ searches = <<>>
    /\ mret = <<>>
    /\ ResolveIdle
    /\ RunIdle
    /\ FallbackIdle
    /\ CallIdle
    /\ BuildIdle

\* "if not song_title: return None, 0.0"
EmptyTitle ==
    /\ mpc = "start"
    /\ ~Truthy(song.title)
    /\ mret' = <<[uri |-> None, score2 |-> 0]>>
    /\ mpc' = "done"
    /\ UNCHANGED <<song, best, searches>>

\* the combined search and the scan of its results; results is empty when
\* search_track raised
Combined(raised, results) ==
    /\ mpc = "start"
    /\ Truthy(song.title)
    /\ searches' = Append(searches, [q |-> CombinedQuery(song.title, song.hint),
                                     raised |-> raised, results |-> results])
    /\ best' = ScanResults(song.title, song.hint, results, best)
    /\ IF NeedsTitleSearch(best')
       THEN mpc' = "title_search" /\ mret' = mret
       ELSE mpc' = "done" /\ mret' = <<best'>>
    /\ UNCHANGED song

CombinedSearch == \E results \in SeqsUpTo(Tracks, MaxResults) : Combined(FALSE, results)

CombinedSearchRaises == Combined(TRUE, <<>>)

\* the title-only search and the scan of its results
TitleOnly(raised, results) ==
    /\ mpc = "title_search"
    /\ searches' = Append(searches, [q |-> TitleQuery(song.title),
                                     raised |-> raised, results |-> results])
    /\ best' = ScanResults(song.title, song.hint, results, best)
    /\ mpc' = "done"
    /\ mret' = <<best'>>
    /\ UNCHANGED song

TitleSearch == \E results \in SeqsUpTo(Tracks, MaxResults) : TitleOnly(FALSE, results)

TitleSearchRaises == TitleOnly(TRUE, <<>>)

NextMatch ==
    \/ EmptyTitle /\ UNCHANGED <<resolveVars, runVars, fallbackVars, callVars, buildVars>>
    \/ CombinedSearch /\ UNCHANGED <<resolveVars, runVars, fallbackVars, callVars, buildVars>>
    \/ CombinedSearchRaises /\ UNCHANGED <<resolveVars, runVars, fallbackVars, callVars, buildVars>>
    \/ TitleSearch /\ UNCHANGED <<resolveVars, runVars, fallbackVars, callVars, buildVars>>
    \/ TitleSearchRaises /\ UNCHANGED <<resolveVars, runVars, fallbackVars, callVars, buildVars>>

SpecMatch == InitMatch /\ [][NextMatch]_vars

-----------------------------------------------------------------------------
(* search_track against a catalog, and the two lookups built on it *)

CombinedLimit == 12
TitleLimit == 8
FallbackSearchLimit == 40
FallbackLimit == 5

Min(a, b) == IF a <= b THEN a ELSE b

\* xs[:n]
Take(xs, n) == SubSeq(xs, 1, Min(n, Len(xs)))

\* the words of the performers of a track
ArtistTokens(t) == Tokens(JoinNames(t.artists))

\* whether the catalog lists track t for a query: every word of the query
\* occurs in the track's name or performers; "artist:<name>" looks at the
\* performers only
Matches(t, qw) ==
    IF qw[1] = "artist:"
    THEN Tokens(qw[2]) # {} /\ Tokens(qw[2]) \subseteq ArtistTokens(t)
    ELSE LET w == UNION {Tokens(qw[i]) : i \in 1..Len(qw)}
         IN  w # {} /\ w \subseteq (Tokens(t.name) \cup ArtistTokens(t))

\* search_track(query, limit) against catalog cat
search_track(cat, qw, limit) ==
    LET Listed(t) == Matches(t, qw)
    IN  Take(SelectSeq(cat, Listed), limit)

\* _best_spotify_match_for_song against catalog cat: [uri, score2]
best_match(cat, title, hint) ==
    IF ~Truthy(title) THEN [uri |-> None, score2 |-> 0]
    ELSE LET b1 == ScanResults(title, hint,
                       search_track(cat, CombinedQuery(title, hint), CombinedLimit),
                       BestStart)
         IN  IF NeedsTitleSearch(b1)
             THEN ScanResults(title, hint,
                       search_track(cat, TitleQuery(title), TitleLimit), b1)
             ELSE b1

\* the searches best_match makes
best_match_queries(cat, title, hint) ==
    IF ~Truthy(title) THEN <<>>
    ELSE LET b1 == ScanResults(title, hint,
                       search_track(cat, CombinedQuery(title, hint), CombinedLimit),
                       BestStart)
         IN  <<CombinedQuery(title, hint)>>
                \o (IF NeedsTitleSearch(b1) THEN <<TitleQuery(title)>> ELSE <<>>)

ArtistQuery(name) == <<"artist:", name>>

NameQuery(name) == <<name>>

\* the results _spotify_top_tracks_fallback sorts
FallbackResults(cat, name) ==
    LET r1 == search_track(cat, ArtistQuery(name), FallbackSearchLimit)
    IN  IF r1 = <<>> THEN search_track(cat, NameQuery(name), FallbackSearchLimit)
        ELSE r1

TopUris_Unsorted(results, limit) ==
    Take(FilterTruthy([k \in 1..Len(results) |-> results[k].uri]), limit)

\* the results sorted by popularity, largest first; the uris of those that
\* carry one; the first limit of them
TopUris(results, limit) ==
    LET ord   == SortedDescIdx([i \in 1..Len(results) |-> results[i].popularity])
        items == [k \in 1..Len(results) |-> results[ord[k]]]
    IN  Take(FilterTruthy([k \in 1..Len(items) |-> items[k].uri]), limit)

\* _spotify_top_tracks_fallback(artist_name, limit)
top_tracks_fallback(cat, name, limit) ==
    IF ~Truthy(name) THEN <<>>
    ELSE TopUris(FallbackResults(cat, name), limit)

\* the searches _spotify_top_tracks_fallback makes
fallback_queries(cat, name) ==
    IF ~Truthy(name) THEN <<>>
    ELSE <<ArtistQuery(name)>>
            \o (IF search_track(cat, ArtistQuery(name), FallbackSearchLimit) = <<>>
                THEN <<NameQuery(name)>> ELSE <<>>)

\* str.startswith("spotify:")
StartsWithSpotify(x) ==
    x \in {"spotify:track:1", "spotify:track:2", "spotify:track:3",
           "spotify:track:4", "spotify:track:6", "spotify:track:7"}

-----------------------------------------------------------------------------
(* _spotify_top_tracks_fallback(artist_name, limit), search by search *)

InitFallback ==
    /\ fname \in {"Bob", ""}
    /\ flimit \in 0..MaxLimit
    /\ tpc = "start"
    /\ fsearches = <<>>
    /\ fret = <<>>
    /\ ResolveIdle
    /\ MatchIdle
    /\ RunIdle
    /\ CallIdle
    /\ BuildIdle

\* "if not artist_name: return []"
NoArtistName ==
    /\ tpc = "start"
    /\ ~Truthy(fname)
    /\ fret' = <<(<<>>)>>
    /\ tpc' = "done"
    /\ UNCHANGED <<fname, flimit, fsearches>>

FallbackReturn(results) ==
    /\ fret' = <<TopUris(results, flimit)>>
    /\ tpc' = "done"

\* the search for "artist:<name>"; results is empty when search_track raised
ArtistTracks(raised, results) ==
    /\ tpc = "start"
    /\ Truthy(fname)
    /\ fsearches' = Append(fsearches, [q |-> ArtistQuery(fname), raised |-> raised,
                                       results |-> results])
    /\ IF results = <<>>
       THEN tpc' = "name_search" /\ fret' = fret
       ELSE FallbackReturn(results)
    /\ UNCHANGED <<fname, flimit>>

ArtistTrackSearch == \E results \in SeqsUpTo(Tracks, MaxResults) : ArtistTracks(FALSE, results)

ArtistTrackSearchRaises == ArtistTracks(TRUE, <<>>)

\* "if not results": the search for the bare name
NameTracks(raised, results) ==
    /\ tpc = "name_search"
    /\ fsearches' = Append(fsearches, [q |-> NameQuery(fname), raised |-> raised,
                                       results |-> results])
    /\ FallbackReturn(results)
    /\ UNCHANGED <<fname, flimit>>

NameTrackSearch == \E results \in SeqsUpTo(Tracks, MaxResults) : NameTracks(FALSE, results)

NameTrackSearchRaises == NameTracks(TRUE, <<>>)

NextFallback ==
    \/ NoArtistName /\ UNCHANGED <<resolveVars, matchVars, runVars, callVars, buildVars>>
    \/ ArtistTrackSearch /\ UNCHANGED <<resolveVars, matchVars, runVars, callVars, buildVars>>
    \/ ArtistTrackSearchRaises /\ UNCHANGED <<resolveVars, matchVars, runVars, callVars, buildVars>>
    \/ NameTrackSearch /\ UNCHANGED <<resolveVars, matchVars, runVars, callVars, buildVars>>
    \/ NameTrackSearchRaises /\ UNCHANGED <<resolveVars, matchVars, runVars, callVars, buildVars>>

SpecFallback == InitFallback /\ [][NextFallback]_vars

-----------------------------------------------------------------------------
(* spotify_api.search_track, request by request of _call_api *)

\* "retries: int = 2": the passes of the loop of _call_api
DefaultRetries == 2

\* the Retry-After header of a 429 answer; None: the answer has none
RetryAfterHeaders == {None, "0", "3"}

\* int(str) on the headers above and on the default
IntOf(str) ==
    CASE str = "0" -> 0
      [] str = "2" -> 2
      [] str = "3" -> 3

\* int(resp.headers.get("Retry-After", "2"))
RetryAfterWait(header) == IntOf(IF header = None THEN "2" ELSE header)

\* "max_retries: int = 3": the passes of the loops of get_access_token
TokenRetries == 3

InitCall ==
    /\ ResolveIdle
    /\ MatchIdle
    /\ RunIdle
    /\ FallbackIdle
    /\ BuildIdle
    /\ call_no = 1
    /\ asked = FALSE
    /\ attempt = 1
    /\ cpc = "attempt"
    /\ token \in {"no_credentials", "none", "cached"}
    /\ tok_try = 0
    /\ tsent = <<>>
    /\ slept = 0
    /\ sent = <<>>
    /\ cret = "pending"

\* the times get_access_token found the cached token expired during the call
Expiries == Cardinality({i \in 1..Len(tsent) : tsent[i].try = 1 /\ tsent[i].expired})

\* get_access_token goes to the token endpoint: no valid cached token, and
\* a pass of its loop is left
InTokenLoop ==
    /\ cpc = "attempt"
    /\ attempt <= DefaultRetries
    /\ token # "no_credentials"
    /\ tok_try < TokenRetries
    /\ token = "none" \/ Expiries < MaxExpiries

TokenRequest(answer) ==
    [call |-> call_no, attempt |-> attempt, try |-> tok_try + 1,
     expired |-> (token = "cached"), answer |-> answer]

\* the token request raises or is answered with a status other than 200:
\* "time.sleep(attempt); continue"
TokenRequestFails ==
    /\ InTokenLoop
    /\ \E kind \in Failures : tsent' = Append(tsent, TokenRequest(kind))
    /\ slept' = slept + tok_try + 1
    /\ tok_try' = tok_try + 1
    /\ token' = "none"
    /\ UNCHANGED <<call_no, asked, attempt, cpc, sent, cret>>

\* the token request is answered 200: the token is cached and returned
TokenAcquired ==
    /\ InTokenLoop
    /\ tsent' = Append(tsent, TokenRequest("ok"))
    /\ token' = "cached"
    /\ tok_try' = 0
    /\ cpc' = "request"
    /\ UNCHANGED <<call_no, asked, attempt, slept, sent, cret>>

\* the token request is answered 200 and resp.json() raises: the exception
\* leaves get_access_token, _call_api and search_track
TokenBadJson ==
    /\ InTokenLoop
    /\ tsent' = Append(tsent, TokenRequest("not_json"))
    /\ token' = "none"
    /\ tok_try' = 0
    /\ cret' = "raised"
    /\ cpc' = "returned"
    /\ UNCHANGED <<call_no, asked, attempt, slept, sent>>

\* the loop of get_access_token is over: "raise RuntimeError", which leaves
\* _call_api and search_track
TokenExhausted ==
    /\ cpc = "attempt"
    /\ tok_try = TokenRetries
    /\ tok_try' = 0
    /\ cret' = "raised"
    /\ cpc' = "returned"
    /\ UNCHANGED <<call_no, asked, attempt, token, tsent, slept, sent>>

\* "Missing Spotify credentials in environment": get_access_token raises
\* without a request, and the exception leaves _call_api and search_track
MissingCredentials ==
    /\ cpc = "attempt"
    /\ attempt <= DefaultRetries
    /\ token = "no_credentials"
    /\ cret' = "raised"
    /\ cpc' = "returned"
    /\ UNCHANGED <<call_no, asked, attempt, token, tok_try, tsent, slept, sent>>

\* the request of this pass: gap is the time slept since the request before
\* it, waited the time slept after its answer
Request(answer, header, waited) ==
    [call |-> call_no, attempt |-> attempt, gap |-> slept, answer |-> answer,
     header |-> header, waited |-> waited]

\* "for attempt in range(1, retries + 1)": a pass is left and
\* get_access_token has returned a token, the cached one or a new one
InLoop ==
    /\ attempt <= DefaultRetries
    /\ \/ cpc = "request"
       \/ cpc = "attempt" /\ token = "cached" /\ tok_try = 0

\* the request is sent and the same pass is made again
Retry_SameAttempt(answer, header, seconds) ==
    /\ attempt <= DefaultRetries
    /\ cpc = "request" \/ (cpc = "attempt" /\ token = "cached" /\ tok_try = 0)
    /\ sent' = Append(sent, [call |-> call_no, attempt |-> attempt, gap |-> slept,
                             answer |-> answer, header |-> header, waited |-> seconds])
    /\ slept' = seconds
    /\ cpc' = "attempt"
    /\ UNCHANGED <<call_no, asked, attempt, token, tok_try, tsent, cret>>

\* the request is sent, then "time.sleep(seconds); continue"
Retry(answer, header, seconds) ==
    /\ InLoop
    /\ sent' = Append(sent, Request(answer, header, seconds))
    /\ slept' = seconds
    /\ attempt' = attempt + 1
    /\ cpc' = "attempt"
    /\ UNCHANGED <<call_no, asked, token, tok_try, tsent, cret>>

\* _session.request raises
TransportError == Retry("transport", None, attempt)

\* status 429
RateLimited == \E header \in RetryAfterHeaders : Retry("rate", header, RetryAfterWait(header))

\* status 500 and above
ServerError == Retry("server", None, attempt)

\* the request is sent, _call_api returns and search_track returns result
Returns(answer, result) ==
    /\ InLoop
    /\ sent' = Append(sent, Request(answer, None, 0))
    /\ slept' = 0
    /\ cret' = result
    /\ cpc' = "returned"
    /\ UNCHANGED <<call_no, asked, attempt, token, tok_try, tsent>>

\* a status that is not 200, 201, 429 or 5xx: None, and search_track gives []
ClientError == Returns("status", "empty")

\* resp.json() raises: None, and search_track gives []
BadJson == Returns("not_json", "empty")

\* status 200 with a JSON body: search_track gives the items of the body
Answered == Returns("ok", "items")

\* the loop is over: "return None", and search_track gives []
Exhausted ==
    /\ cpc = "attempt"
    /\ attempt > DefaultRetries
    /\ cret' = "empty"
    /\ cpc' = "returned"
    /\ UNCHANGED <<call_no, asked, attempt, token, tok_try, tsent, slept, sent>>

\* the caller makes its next search (the title-only search after the
\* combined one, the search of the next song): nothing sleeps in between
StartNextCall ==
    /\ cpc = "returned"
    /\ call_no < MaxCalls
    /\ call_no' = call_no + 1
    /\ attempt' = 1
    /\ cpc' = "attempt"
    /\ cret' = "pending"
    /\ asked' = (asked \/ sent # <<>>)
    /\ sent' = <<>>
    /\ tsent' = <<>>
    /\ UNCHANGED <<token, tok_try, slept>>

NextCall ==
    \/ TransportError /\ UNCHANGED <<resolveVars, matchVars, runVars, fallbackVars, buildVars>>
    \/ RateLimited /\ UNCHANGED <<resolveVars, matchVars, runVars, fallbackVars, buildVars>>
    \/ ServerError /\ UNCHANGED <<resolveVars, matchVars, runVars, fallbackVars, buildVars>>
    \/ ClientError /\ UNCHANGED <<resolveVars, matchVars, runVars, fallbackVars, buildVars>>
    \/ BadJson /\ UNCHANGED <<resolveVars, matchVars, runVars, fallbackVars, buildVars>>
    \/ Answered /\ UNCHANGED <<resolveVars, matchVars, runVars, fallbackVars, buildVars>>
    \/ MissingCredentials /\ UNCHANGED <<resolveVars, matchVars, runVars, fallbackVars, buildVars>>
    \/ TokenRequestFails /\ UNCHANGED <<resolveVars, matchVars, runVars, fallbackVars, buildVars>>
    \/ TokenAcquired /\ UNCHANGED <<resolveVars, matchVars, runVars, fallbackVars, buildVars>>
    \/ TokenBadJson /\ UNCHANGED <<resolveVars, matchVars, runVars, fallbackVars, buildVars>>
    \/ TokenExhausted /\ UNCHANGED <<resolveVars, matchVars, runVars, fallbackVars, buildVars>>
    \/ Exhausted /\ UNCHANGED <<resolveVars, matchVars, runVars, fallbackVars, buildVars>>
    \/ StartNextCall /\ UNCHANGED <<resolveVars, matchVars, runVars, fallbackVars, buildVars>>

SpecCall == InitCall /\ [][NextCall]_vars

\* every step of _call_api is taken in the end: a request is answered or
\* times out after 15 seconds, and time.sleep returns
SpecCallLive == SpecCall /\ WF_vars(NextCall)

-----------------------------------------------------------------------------
(* The order of performers *)

\* PlaylistBuilder._parse_time_or_none: <<h, m, s>>, or <<>> for None
_parse_time_or_none(t) ==
    CASE ~Truthy(t)   -> <<>>
      [] t = "21:00"  -> <<21, 0, 0>>
      [] t = "18:00"  -> <<18, 0, 0>>
      [] t = "9:30"   -> <<9, 30, 0>>
      [] t = "late"   -> <<>>

\* the position of a string in Python's order of the strings that are sort keys
StrRank(x) ==
    CASE x = ""                     -> 0
      [] x = "2024-05-01"           -> 1
      [] x = "2024-05-02"           -> 2
      [] x = "2024-05-03"           -> 3
      [] x = "9999-99-99T99:99:99Z" -> 4
      [] x = "alice"                -> 5
      [] x = "alise"                -> 6
      [] x = "bob"                  -> 7
      [] x = "bob "                 -> 8
      [] x = "carol"                -> 9
      [] x = "unknown artist"       -> 10

\* tuple < tuple, for triples of integers
TupleLess(a, b) ==
    \/ a[1] < b[1]
    \/ a[1] = b[1] /\ a[2] < b[2]
    \/ a[1] = b[1] /\ a[2] = b[2] /\ a[3] < b[3]

_sort_band_AbsentFirst(e) ==
    LET st == _parse_time_or_none(e.startTime)
    IN  [st |-> IF st # <<>> THEN st ELSE <<0, 0, 0>>,
         lu |-> IF Truthy(e.lastUpdated) THEN e.lastUpdated ELSE "9999-99-99T99:99:99Z",
         nm |-> Lower(Or(e.name, ""))]

\* _sort_band: the sort key of a festival act
_sort_band(e) ==
    LET st == _parse_time_or_none(e.startTime)
    IN  [st |-> IF st # <<>> THEN st ELSE <<99, 99, 99>>,
         lu |-> IF Truthy(e.lastUpdated) THEN e.lastUpdated ELSE "9999-99-99T99:99:99Z",
         nm |-> Lower(Or(e.name, ""))]

\* _sort_key_for_opener: the sort key of an opener
_sort_key_for_opener(op) ==
    LET st == _parse_time_or_none(op.startTime)
    IN  [st |-> IF st # <<>> THEN st ELSE <<99, 99, 99>>,
         lu |-> IF Truthy(op.lastUpdated) THEN op.lastUpdated ELSE "9999-99-99T99:99:99Z",
         nm |-> Lower(Or(op.name, ""))]

\* key < key: Python's order of the (st_key, lu_key, nm) tuples
KeyLess(a, b) ==
    \/ TupleLess(a.st, b.st)
    \/ a.st = b.st /\ StrRank(a.lu) < StrRank(b.lu)
    \/ a.st = b.st /\ a.lu = b.lu /\ StrRank(a.nm) < StrRank(b.nm)

\* sorted(xs, key=...): the indices of keys in ascending order, equal keys in
\* input order
SortedAscIdx(keys) ==
    LET n == Len(keys)
        pos(i) == 1 + Cardinality({j \in 1..n :
                        KeyLess(keys[j], keys[i]) \/ (keys[j] = keys[i] /\ j < i)})
    IN  [k \in 1..n |-> CHOOSE i \in 1..n : pos(i) = k]

\* the defensive normalisation of one lineup entry / opener
NormEntry(item) ==
    [name        |-> IF Truthy(item.name) /\ Truthy(Strip(item.name))
                     THEN item.name ELSE "Unknown Artist",
     songs       |-> item.songs,
     startTime   |-> IF Truthy(item.startTime) THEN item.startTime ELSE None,
     lastUpdated |-> IF Truthy(item.lastUpdated) THEN item.lastUpdated ELSE None]

\* band_entries after sorted(band_entries, key=_sort_band)
SortedBand(lineup) ==
    LET entries == [i \in 1..Len(lineup) |-> NormEntry(lineup[i])]
        ord     == SortedAscIdx([i \in 1..Len(entries) |-> _sort_band(entries[i])])
    IN  [k \in 1..Len(entries) |-> entries[ord[k]]]

\* openers after sorted(openers, key=_sort_key_for_opener)
SortedOpeners(openers) ==
    LET entries == [i \in 1..Len(openers) |-> NormEntry(openers[i])]
        ord     == SortedAscIdx([i \in 1..Len(entries) |->
                                    _sort_key_for_opener(entries[i])])
    IN  [k \in 1..Len(entries) |-> entries[ord[k]]]

-----------------------------------------------------------------------------
(* PlaylistBuilder.run *)

Row(artist, date, flag) ==
    [artist |-> artist, date |-> date, venue |-> "The Hall", city |-> "Lyon",
     is_festival |-> flag]

\* the rows the sheet can hold
Rows ==
    { Row("Alice", "2024-05-01", ""),
      Row("Bob",   "2024-05-01", "Yes"),
      Row("Alice", None,         ""),
      Row("Alice", "1 May 2024", ""),
      Row("",      "2024-05-01", "") }

Library ==
    [id \in {1, 2, 3, 4, 5, 6, 7} |->
        CASE id = 1 -> Track("spotify:track:1", "Hit",        <<"Alice">>,        70)
          [] id = 2 -> Track("spotify:track:2", "Hit (Live)", <<"Alice">>,        40)
          [] id = 3 -> Track("spotify:track:3", "Hit",        <<"Bob">>,          90)
          [] id = 4 -> Track("spotify:track:4", "Blues",      <<"Bob", "Alice">>, 50)
          [] id = 5 -> Track(None,              "Hit",        <<"Alice">>,        10)
          [] id = 6 -> Track("spotify:track:6", "Blues",      <<"Carol">>,        20)
          [] id = 7 -> Track("spotify:track:7", "Jam",        <<"Carol">>,        60)]

\* the catalogs a run can meet: all tracks, a few, none
Catalogs ==
    { <<Library[3], Library[2], Library[1], Library[5], Library[4], Library[6], Library[7]>>,
      <<Library[6], Library[7], Library[3]>>,
      <<>> }

\* the records a venue/city/date search returns during a run
RunRecords == {r \in VenueRecords : r.artist # "" /\ ~(r.artist = "Carol" /\ r.sets # <<>>)}

\* the exact-date record of the artist search during a run, if any
RunExact ==
    { <<>>,
      <<ARec("01-05-2024", "", "", "")>>,
      <<ARec("01-05-2024", "Festival", "", "")>> }

\* datetime.fromisoformat(iso_date) accepts the string
IsIsoDate(d) == d \in {"2024-05-01", "2024-05-02"}

\* find_event_setlist as a function of what its requests return
find_event_setlist(query, hentry, records) ==
    IF hentry = <<>> THEN VenueOutcome(query, records)
    ELSE FinalOutcome(query, hentry, records)

\* str(ev.get("is_festival", "")).strip().lower() in ("true", "yes", "1")
is_festival_flag(row) == Lower(Strip(row.is_festival)) \in {"true", "yes", "1"}

CurrentRow == ev

\* festival mode by the result of the lookup alone
FestivalMode_ByResult == event_data.kind = "festival"

FestivalMode == event_data.kind = "festival" \/ is_festival_flag(CurrentRow)

\* event_data.get("lineup") or []
LineupOf(ed) == IF ed.kind = "festival" THEN ed.lineup ELSE <<>>

\* event_data.get("headliner") or artist or "Unknown Artist"
HeadlinerName == Or(event_data.headliner, Or(CurrentRow.artist, "Unknown Artist"))

\* the pairs one performer contributes
PerformerPairs(cat, b) ==
    LET name == Or(b.name, "Unknown Artist")
    IN  IF b.songs # <<>>
        THEN [i \in 1..Len(b.songs) |-> [t |-> b.songs[i], hint |-> name]]
        ELSE LET uris == top_tracks_fallback(cat, name, FallbackLimit)
             IN  [i \in 1..Len(uris) |-> [t |-> uris[i], hint |-> None]]

PerformerQueries(cat, b) ==
    IF b.songs # <<>> THEN <<>>
    ELSE fallback_queries(cat, Or(b.name, "Unknown Artist"))

\* the pairs of the performers of bs, in the order of bs
RECURSIVE BandPairs(_, _)
BandPairs(cat, bs) ==
    IF bs = <<>> THEN <<>>
    ELSE PerformerPairs(cat, Head(bs)) \o BandPairs(cat, Tail(bs))

RECURSIVE BandQueries(_, _)
BandQueries(cat, bs) ==
    IF bs = <<>> THEN <<>>
    ELSE PerformerQueries(cat, Head(bs)) \o BandQueries(cat, Tail(bs))

HeadlinerPairs(songs, headliner) ==
    [i \in 1..Len(songs) |-> [t |-> songs[i], hint |-> headliner]]

NormalPairs_HeadlinerFirst(cat, openers, songs, headliner) ==
    HeadlinerPairs(songs, headliner) \o BandPairs(cat, openers)

\* the pairs of a normal show: the openers' pairs, then the headliner's songs
NormalPairs(cat, openers, songs, headliner) ==
    BandPairs(cat, openers) \o HeadlinerPairs(songs, headliner)

AddUnique_NoSeen(uris, seenSet, uri) ==
    IF Truthy(uri) THEN Append(uris, uri) ELSE uris

\* "if uri and uri not in seen: track_uris.append(uri)"
AddUnique(uris, seenSet, uri) ==
    IF Truthy(uri) /\ uri \notin seenSet THEN Append(uris, uri) ELSE uris

InitRun ==
    /\ MatchIdle
    /\ ResolveIdle
    /\ FallbackIdle
    /\ CallIdle
    /\ BuildIdle
    \* an empty sheet, or one of MaxRows rows (a shorter sheet is processed as
    \* the first rows of a longer one are)
    /\ n_events \in {0, MaxRows}
    /\ catalog \in Catalogs
    /\ idx = 1
    /\ IF n_events = 0
       THEN rpc = "end" /\ ev = NoRow
       ELSE rpc = "row" /\ ev \in Rows
    /\ event_data = Pending
    /\ band = <<>>
    /\ pairs = <<>>
    /\ pi = 0
    /\ resolved = <<>>
    /\ track_uris = <<>>
    /\ seen = {}
    /\ queries = <<>>
    /\ outcome = ""
    /\ dry_run \in BOOLEAN
    /\ lookup_fault = <<>>
    /\ sink_has = ""
    /\ sink_ops = <<>>

\* the row is left: "continue", or the end of the loop body
EndRow(how) ==
    /\ rpc' = "row_done"
    /\ outcome' = how

SkipRow_Raises ==
    /\ rpc = "row"
    /\ ~Truthy(CurrentRow.artist) \/ ~Truthy(CurrentRow.date)
    /\ rpc' = "aborted"
    /\ outcome' = "raised"
    /\ UNCHANGED <<n_events, idx, ev, catalog, event_data, band, pairs, pi, resolved,
                   track_uris, seen, queries>>
    /\ UNCHANGED sinkVars

\* "if not artist or not date": the row is skipped
SkipRow ==
    /\ rpc = "row"
    /\ ~Truthy(CurrentRow.artist) \/ ~Truthy(CurrentRow.date)
    /\ EndRow("malformed")
    /\ UNCHANGED <<n_events, idx, ev, catalog, event_data, band, pairs, pi, resolved,
                   track_uris, seen, queries>>
    /\ UNCHANGED sinkVars

RowQuery ==
    [artist |-> CurrentRow.artist, venue |-> CurrentRow.venue,
     city |-> CurrentRow.city, date |-> CurrentRow.date]

\* find_event_setlist returned ed
Looked(ed) ==
    /\ event_data' = ed
    /\ IF ed.kind = "none"
       THEN EndRow("not_found")
       ELSE rpc' = "build" /\ outcome' = outcome
    /\ UNCHANGED <<n_events, idx, ev, catalog, band, pairs, pi, resolved,
                   track_uris, seen, queries, dry_run, sink_has, sink_ops>>

\* the setlist lookup, all its requests answered
Lookup ==
    /\ rpc = "row"
    /\ Truthy(CurrentRow.artist) /\ Truthy(CurrentRow.date)
    /\ IsIsoDate(CurrentRow.date)
    /\ lookup_fault' = lookup_fault
    /\ \E hentry \in RunExact, records \in SeqsUpTo(RunRecords, MaxLineup) :
          Looked(find_event_setlist(RowQuery, hentry, records))

LookupFails_Raises ==
    /\ rpc = "row"
    /\ Truthy(CurrentRow.artist) /\ Truthy(CurrentRow.date)
    /\ IsIsoDate(CurrentRow.date)
    /\ \E request \in 1..3, kind \in Failures :
          lookup_fault' = <<[request |-> request, kind |-> kind]>>
    /\ rpc' = "aborted"
    /\ outcome' = "raised"
    /\ UNCHANGED <<n_events, idx, ev, catalog, event_data, band, pairs, pi, resolved,
                   track_uris, seen, queries, dry_run, sink_has, sink_ops>>

\* the setlist lookup, one of its requests failing: the artist search (1),
\* the venue search made without an exact-date record (2) or the venue search
\* made with one (3) raises or answers with a status other than 200, and
\* find_event_setlist returns None
LookupFails ==
    /\ rpc = "row"
    /\ Truthy(CurrentRow.artist) /\ Truthy(CurrentRow.date)
    /\ IsIsoDate(CurrentRow.date)
    /\ \E request \in 1..3, kind \in Failures :
          lookup_fault' = <<[request |-> request, kind |-> kind]>>
    /\ Looked(NoResult)

\* the date of the row is not an ISO date: _to_setlistfm_date raises
\* ValueError before any request is sent, and nothing in run catches it
LookupRaises ==
    /\ rpc = "row"
    /\ Truthy(CurrentRow.artist) /\ Truthy(CurrentRow.date)
    /\ ~IsIsoDate(CurrentRow.date)
    /\ rpc' = "aborted"
    /\ outcome' = "raised"
    /\ UNCHANGED <<n_events, idx, ev, catalog, event_data, band, pairs, pi, resolved,
                   track_uris, seen, queries, sinkVars>>

\* festival mode without a lineup
FestivalNoLineup ==
    /\ rpc = "build"
    /\ FestivalMode
    /\ LineupOf(event_data) = <<>>
    /\ EndRow("no_lineup")
    /\ UNCHANGED <<n_events, idx, ev, catalog, event_data, band, pairs, pi, resolved,
                   track_uris, seen, queries>>
    /\ UNCHANGED sinkVars

\* festival mode: the acts sorted and their pairs built
BuildFestival ==
    /\ rpc = "build"
    /\ FestivalMode
    /\ LineupOf(event_data) # <<>>
    /\ band' = SortedBand(LineupOf(event_data))
    /\ pairs' = BandPairs(catalog, band')
    /\ queries' = queries \o BandQueries(catalog, band')
    /\ pi' = 1
    /\ rpc' = "resolve"
    /\ UNCHANGED <<n_events, idx, ev, catalog, event_data, resolved, track_uris, seen, outcome>>
    /\ UNCHANGED sinkVars

\* normal mode: the openers sorted, their pairs built, then the headliner's
BuildNormal ==
    /\ rpc = "build"
    /\ ~FestivalMode
    /\ band' = SortedOpeners(event_data.openers)
    /\ queries' = queries \o BandQueries(catalog, band')
    /\ IF event_data.headliner_songs # <<>>
       THEN /\ pairs' = NormalPairs(catalog, band', event_data.headliner_songs,
                                    HeadlinerName)
            /\ pi' = 1
            /\ rpc' = "resolve"
            /\ outcome' = outcome
       ELSE /\ pairs' = BandPairs(catalog, band')
            /\ pi' = pi
            /\ EndRow("no_headliner_songs")
    /\ UNCHANGED <<n_events, idx, ev, catalog, event_data, resolved, track_uris, seen>>
    /\ UNCHANGED sinkVars

\* the hint given to _best_spotify_match_for_song for a pair
HintFor(pair) ==
    IF FestivalMode THEN Or(pair.hint, "") ELSE Or(pair.hint, HeadlinerName)

IsPassThrough_Never(pair) == FALSE

IsPassThrough(pair) == pair.hint = None /\ StartsWithSpotify(pair.t)

\* one pass of the loop over pairs
ResolvePair ==
    /\ rpc = "resolve"
    /\ pi <= Len(pairs)
    /\ LET pair == pairs[pi]
           uri  == IF IsPassThrough(pair) THEN pair.t
                   ELSE best_match(catalog, pair.t, HintFor(pair)).uri
       IN  /\ resolved' = Append(resolved, uri)
           /\ queries' = IF IsPassThrough(pair) THEN queries
                         ELSE queries \o best_match_queries(catalog, pair.t, HintFor(pair))
           /\ track_uris' = AddUnique(track_uris, seen, uri)
           /\ seen' = IF Truthy(uri) THEN seen \cup {uri} ELSE seen
    /\ pi' = pi + 1
    /\ UNCHANGED <<n_events, idx, ev, rpc, catalog, event_data, band, pairs, outcome>>
    /\ UNCHANGED sinkVars

\* "if not track_uris": nothing resolved, the row is skipped
NoTracks ==
    /\ rpc = "resolve"
    /\ pi > Len(pairs)
    /\ track_uris = <<>>
    /\ EndRow("no_tracks")
    /\ UNCHANGED <<n_events, idx, ev, catalog, event_data, band, pairs, pi, resolved,
                   track_uris, seen, queries>>
    /\ UNCHANGED sinkVars

\* the frame of the steps that follow the resolution of the tracks
UnchangedPlan ==
    UNCHANGED <<n_events, idx, ev, catalog, event_data, band, pairs, pi, resolved,
                track_uris, seen, queries, dry_run, lookup_fault>>

SinkOp(op, ok) == [op |-> op, ok |-> ok]

Planned_EmptyToo == rpc = "resolve" /\ pi > Len(pairs)

\* the tracks of the row are resolved and track_uris is not empty
Planned == rpc = "resolve" /\ pi > Len(pairs) /\ track_uris # <<>>

\* "user_id = self.spotify.get_current_user_id() or 'me'" in try/except: the
\* sink is asked for the user; got is FALSE when it returns None or raises,
\* and "me" is used
UserOps(got) == <<SinkOp("user", got)>>

\* festival mode: the name and the description are built, the sink is asked
\* for the user and the playlist is created without asking the sink for a
\* playlist of that name; whether the sink holds one is fixed here
FestivalPlan ==
    /\ Planned
    /\ FestivalMode
    /\ sink_has' \in {"yes", "no"}
    /\ \E got \in BOOLEAN : sink_ops' = sink_ops \o UserOps(got)
    /\ rpc' = "build_playlist"
    /\ UNCHANGED outcome
    /\ UnchangedPlan

\* normal mode: find_playlist_by_name returns an id, the row is skipped
ExistingFound ==
    /\ Planned
    /\ ~FestivalMode
    /\ sink_has' = "yes"
    /\ sink_ops' = Append(sink_ops, SinkOp("find", TRUE))
    /\ EndRow("exists")
    /\ UnchangedPlan

\* what the sink can do when asked for a playlist by name, other than
\* returning an id: return None, raise, or not offer find_playlist_by_name
NoAnswers == {"no", "down", "absent"}

\* the requests of the existence check: none when the sink has no
\* find_playlist_by_name
FindOps(has) == IF has = "absent" THEN <<>> ELSE <<SinkOp("find", has = "no")>>

ExistingNotFound_Raises ==
    /\ Planned
    /\ ~FestivalMode
    /\ sink_has' \in NoAnswers
    /\ sink_ops' = sink_ops \o FindOps(sink_has')
    /\ IF sink_has' = "no"
       THEN rpc' = "build_playlist" /\ outcome' = outcome
       ELSE rpc' = "aborted" /\ outcome' = "raised"
    /\ UnchangedPlan

\* normal mode: find_playlist_by_name returns None, or raises and existing
\* is set to None, or the sink has no find_playlist_by_name; then the sink is
\* asked for the user
ExistingNotFound ==
    /\ Planned
    /\ ~FestivalMode
    /\ sink_has' \in NoAnswers
    /\ \E got \in BOOLEAN : sink_ops' = sink_ops \o FindOps(sink_has') \o UserOps(got)
    /\ rpc' = "build_playlist"
    /\ UNCHANGED outcome
    /\ UnchangedPlan

\* _build_playlist_for_event creating the playlist whatever dry_run is
DryRunBuild_Sends ==
    /\ rpc = "build_playlist"
    /\ dry_run
    /\ sink_ops' = sink_ops \o <<SinkOp("create", TRUE), SinkOp("add", TRUE)>>
    /\ EndRow("emitted")
    /\ UNCHANGED sink_has
    /\ UnchangedPlan

\* _build_playlist_for_event in a dry run: nothing is sent to the sink
DryRunBuild ==
    /\ rpc = "build_playlist"
    /\ dry_run
    /\ EndRow("emitted")
    /\ UNCHANGED <<sink_has, sink_ops>>
    /\ UnchangedPlan

\* _build_playlist_for_event: create_playlist returns an id and the tracks
\* are added; add_tracks returning False only gives a warning
Emit ==
    /\ rpc = "build_playlist"
    /\ ~dry_run
    /\ \E ok \in BOOLEAN :
          sink_ops' = sink_ops \o <<SinkOp("create", TRUE), SinkOp("add", ok)>>
    /\ EndRow("emitted")
    /\ UNCHANGED sink_has
    /\ UnchangedPlan

\* _build_playlist_for_event: create_playlist returns None ("Failed to create
\* playlist" is raised) or raises; nothing in run catches the exception
CreateFails ==
    /\ rpc = "build_playlist"
    /\ ~dry_run
    /\ sink_ops' = Append(sink_ops, SinkOp("create", FALSE))
    /\ rpc' = "aborted"
    /\ outcome' = "raised"
    /\ UNCHANGED sink_has
    /\ UnchangedPlan

\* _build_playlist_for_event: add_tracks raises; nothing in run catches it
AddTracksRaises ==
    /\ rpc = "build_playlist"
    /\ ~dry_run
    /\ sink_ops' = sink_ops \o <<SinkOp("create", TRUE), SinkOp("add", FALSE)>>
    /\ rpc' = "aborted"
    /\ outcome' = "raised"
    /\ UNCHANGED sink_has
    /\ UnchangedPlan

\* _build_playlist_for_event: the playlist is created and the sink has
\* neither add_tracks nor add_tracks_to_playlist: RuntimeError is raised with
\* no add call made; nothing in run catches it
AddMethodMissing ==
    /\ rpc = "build_playlist"
    /\ ~dry_run
    /\ sink_ops' = Append(sink_ops, SinkOp("create", TRUE))
    /\ rpc' = "aborted"
    /\ outcome' = "raised"
    /\ UNCHANGED sink_has
    /\ UnchangedPlan

\* the loop moves to the next row
Advance ==
    /\ rpc = "row_done"
    /\ idx' = idx + 1
    /\ IF idx + 1 > n_events
       THEN rpc' = "end" /\ ev' = NoRow
       ELSE rpc' = "row" /\ ev' \in Rows
    /\ event_data' = Pending
    /\ band' = <<>>
    /\ pairs' = <<>>
    /\ pi' = 0
    /\ resolved' = <<>>
    /\ track_uris' = <<>>
    /\ seen' = {}
    /\ queries' = <<>>
    /\ outcome' = ""
    /\ lookup_fault' = <<>>
    /\ sink_has' = ""
    /\ sink_ops' = <<>>
    /\ UNCHANGED <<n_events, catalog, dry_run>>

NextRun ==
    \/ SkipRow /\ UNCHANGED <<resolveVars, matchVars, fallbackVars, callVars, buildVars>>
    \/ Lookup /\ UNCHANGED <<resolveVars, matchVars, fallbackVars, callVars, buildVars>>
    \/ LookupFails /\ UNCHANGED <<resolveVars, matchVars, fallbackVars, callVars, buildVars>>
    \/ LookupRaises /\ UNCHANGED <<resolveVars, matchVars, fallbackVars, callVars, buildVars>>
    \/ FestivalNoLineup /\ UNCHANGED <<resolveVars, matchVars, fallbackVars, callVars, buildVars>>
    \/ BuildFestival /\ UNCHANGED <<resolveVars, matchVars, fallbackVars, callVars, buildVars>>
    \/ BuildNormal /\ UNCHANGED <<resolveVars, matchVars, fallbackVars, callVars, buildVars>>
    \/ ResolvePair /\ UNCHANGED <<resolveVars, matchVars, fallbackVars, callVars, buildVars>>
    \/ NoTracks /\ UNCHANGED <<resolveVars, matchVars, fallbackVars, callVars, buildVars>>
    \/ FestivalPlan /\ UNCHANGED <<resolveVars, matchVars, fallbackVars, callVars, buildVars>>
    \/ ExistingFound /\ UNCHANGED <<resolveVars, matchVars, fallbackVars, callVars, buildVars>>
    \/ ExistingNotFound /\ UNCHANGED <<resolveVars, matchVars, fallbackVars, callVars, buildVars>>
    \/ DryRunBuild /\ UNCHANGED <<resolveVars, matchVars, fallbackVars, callVars, buildVars>>
    \/ Emit /\ UNCHANGED <<resolveVars, matchVars, fallbackVars, callVars, buildVars>>
    \/ CreateFails /\ UNCHANGED <<resolveVars, matchVars, fallbackVars, callVars, buildVars>>
    \/ AddTracksRaises /\ UNCHANGED <<resolveVars, matchVars, fallbackVars, callVars, buildVars>>
    \/ AddMethodMissing /\ UNCHANGED <<resolveVars, matchVars, fallbackVars, callVars, buildVars>>
    \/ Advance /\ UNCHANGED <<resolveVars, matchVars, fallbackVars, callVars, buildVars>>

SpecRun == InitRun /\ [][NextRun]_vars

-----------------------------------------------------------------------------
(* _build_playlist_for_event, with add_tracks_to_playlist batch by batch *)

\* "CHUNK = 100": Spotify accepts up to 100 URIs per request
CHUNK == 100

\* n track ids, no id twice
Uris(n) == [k \in 1..n |-> k]

InitBuild ==
    /\ ResolveIdle
    /\ MatchIdle
    /\ RunIdle
    /\ FallbackIdle
    /\ CallIdle
    /\ b_dry \in BOOLEAN
    /\ \E n \in 0..(MaxBatches * CHUNK + 1) : b_uris = Uris(n)
    /\ bpc = "start"
    /\ pid = ""
    /\ offset = 0
    /\ batches = <<>>
    /\ add_ok = "pending"
    /\ warned = FALSE
    /\ b_ret = "pending"

\* "if self.dry_run": the tracks are logged and nothing is sent
BuildDryRun ==
    /\ bpc = "start"
    /\ b_dry
    /\ b_ret' = "dry-run-playlist-id"
    /\ bpc' = "done"
    /\ UNCHANGED <<b_dry, b_uris, pid, offset, batches, add_ok, warned>>

\* create_playlist returns an id
CreateReturnsId ==
    /\ bpc = "start"
    /\ ~b_dry
    /\ pid' = "pid"
    /\ bpc' = "add"
    /\ UNCHANGED <<b_dry, b_uris, offset, batches, add_ok, warned, b_ret>>

\* create_playlist returns None: "if not pid: raise RuntimeError"
CreateReturnsNone ==
    /\ bpc = "start"
    /\ ~b_dry
    /\ pid' = None
    /\ b_ret' = "raised"
    /\ bpc' = "done"
    /\ UNCHANGED <<b_dry, b_uris, offset, batches, add_ok, warned>>

\* the sink has neither add_tracks nor add_tracks_to_playlist: "raise
\* RuntimeError" after the playlist was created
NoAddMethod ==
    /\ bpc = "add"
    /\ batches = <<>>
    /\ b_ret' = "raised"
    /\ bpc' = "done"
    /\ UNCHANGED <<b_dry, b_uris, pid, offset, batches, add_ok, warned>>

\* add_tracks_to_playlist: "if not uris: return True"
AddNothing ==
    /\ bpc = "add"
    /\ b_uris = <<>>
    /\ add_ok' = "true"
    /\ bpc' = "check"
    /\ UNCHANGED <<b_dry, b_uris, pid, offset, batches, warned, b_ret>>

Chunk_Whole(uris, i) == uris

\* "uris[i : i + CHUNK]"
Chunk(uris, i) == SubSeq(uris, i + 1, Min(i + CHUNK, Len(uris)))

\* "for i in range(0, len(uris), CHUNK)": a pass is left
InBatchLoop == bpc = "add" /\ b_uris # <<>> /\ offset < Len(b_uris)

\* the batch is sent and _call_api returns the answer
BatchAdded ==
    /\ InBatchLoop
    /\ batches' = Append(batches, [uris |-> Chunk(b_uris, offset), ok |-> TRUE])
    /\ offset' = offset + CHUNK
    /\ UNCHANGED <<b_dry, b_uris, bpc, pid, add_ok, warned, b_ret>>

\* the batch is sent and _call_api returns None: "return False"
BatchFails ==
    /\ InBatchLoop
    /\ batches' = Append(batches, [uris |-> Chunk(b_uris, offset), ok |-> FALSE])
    /\ add_ok' = "false"
    /\ bpc' = "check"
    /\ UNCHANGED <<b_dry, b_uris, pid, offset, warned, b_ret>>

\* get_access_token raises in _call_api, after its requests to the token
\* endpoint if it made any: the batch is not sent and the exception leaves
\* add_tracks_to_playlist and _build_playlist_for_event
BatchRaises ==
    /\ InBatchLoop
    /\ b_ret' = "raised"
    /\ bpc' = "done"
    /\ UNCHANGED <<b_dry, b_uris, pid, offset, batches, add_ok, warned>>

\* the loop is over: "return True"
AllBatchesAdded ==
    /\ bpc = "add"
    /\ b_uris # <<>>
    /\ offset >= Len(b_uris)
    /\ add_ok' = "true"
    /\ bpc' = "check"
    /\ UNCHANGED <<b_dry, b_uris, pid, offset, batches, warned, b_ret>>

WarnAndReturn_Raises ==
    /\ bpc = "check"
    /\ warned' = (add_ok = "false")
    /\ b_ret' = IF add_ok = "false" THEN "raised" ELSE pid
    /\ bpc' = "done"
    /\ UNCHANGED <<b_dry, b_uris, pid, offset, batches, add_ok>>

\* "if not ok: warn(...)", then "return pid"
WarnAndReturn ==
    /\ bpc = "check"
    /\ warned' = (add_ok = "false")
    /\ b_ret' = pid
    /\ bpc' = "done"
    /\ UNCHANGED <<b_dry, b_uris, pid, offset, batches, add_ok>>

NextBuild ==
    \/ BuildDryRun /\ UNCHANGED <<resolveVars, matchVars, runVars, fallbackVars, callVars>>
    \/ CreateReturnsId /\ UNCHANGED <<resolveVars, matchVars, runVars, fallbackVars, callVars>>
    \/ CreateReturnsNone /\ UNCHANGED <<resolveVars, matchVars, runVars, fallbackVars, callVars>>
    \/ AddNothing /\ UNCHANGED <<resolveVars, matchVars, runVars, fallbackVars, callVars>>
    \/ BatchAdded /\ UNCHANGED <<resolveVars, matchVars, runVars, fallbackVars, callVars>>
    \/ BatchFails /\ UNCHANGED <<resolveVars, matchVars, runVars, fallbackVars, callVars>>
    \/ BatchRaises /\ UNCHANGED <<resolveVars, matchVars, runVars, fallbackVars, callVars>>
    \/ NoAddMethod /\ UNCHANGED <<resolveVars, matchVars, runVars, fallbackVars, callVars>>
    \/ AllBatchesAdded /\ UNCHANGED <<resolveVars, matchVars, runVars, fallbackVars, callVars>>
    \/ WarnAndReturn /\ UNCHANGED <<resolveVars, matchVars, runVars, fallbackVars, callVars>>

SpecBuild == InitBuild /\ [][NextBuild]_vars

-----------------------------------------------------------------------------
(* Properties of PlaylistBuilder.run *)

\* the performers of the row have been sorted and their pairs built
PairsBuilt ==
    \/ rpc = "resolve"
    \/ rpc = "row_done" /\ outcome \in {"emitted", "no_tracks", "no_headliner_songs"}

\* the performers run sorts: the lineup in festival mode, the openers otherwise
Unsorted ==
    LET input == IF FestivalMode THEN LineupOf(event_data) ELSE event_data.openers
    IN  [i \in 1..Len(input) |-> NormEntry(input[i])]

HasTime(e) == _parse_time_or_none(e.startTime) # <<>>

HasUpdate(e) == Truthy(e.lastUpdated)

SameTime(a, b) == _parse_time_or_none(a.startTime) = _parse_time_or_none(b.startTime)

SameUpdate(a, b) ==
    /\ HasUpdate(a) = HasUpdate(b)
    /\ HasUpdate(a) => a.lastUpdated = b.lastUpdated

\* a plays before b in the order C5 states
PlaysBefore(a, b) ==
    \/ HasTime(a) /\ ~HasTime(b)
    \/ /\ HasTime(a) /\ HasTime(b)
       /\ TupleLess(_parse_time_or_none(a.startTime), _parse_time_or_none(b.startTime))
    \/ SameTime(a, b) /\ HasUpdate(a) /\ ~HasUpdate(b)
    \/ /\ SameTime(a, b) /\ HasUpdate(a) /\ HasUpdate(b)
       /\ StrRank(a.lastUpdated) < StrRank(b.lastUpdated)
    \/ /\ SameTime(a, b) /\ SameUpdate(a, b)
       /\ StrRank(Lower(a.name)) < StrRank(Lower(b.name))

SameRank(a, b) == SameTime(a, b) /\ SameUpdate(a, b) /\ Lower(a.name) = Lower(b.name)

\* C5: the performers are played in a total order: by parsed start time with
\* the performers without a parseable start time last, then by lastUpdated
\* with absent values last, then by lower-cased name; the order is a
\* rearrangement of the input that the input determines.
C5_PerformersInTotalOrder ==
    PairsBuilt =>
        /\ Len(band) = Len(Unsorted)
        /\ \A i \in 1..Len(band) :
              Cardinality({j \in 1..Len(band) : band[j] = band[i]})
                  = Cardinality({j \in 1..Len(Unsorted) : Unsorted[j] = band[i]})
        /\ \A i, j \in 1..Len(band) :
              /\ i < j => PlaysBefore(band[i], band[j]) \/ SameRank(band[i], band[j])
              /\ PlaysBefore(band[i], band[j]) => ~PlaysBefore(band[j], band[i])
              /\ SameRank(band[i], band[j]) => band[i] = band[j]

\* three acts listed in the reverse of their playing order: the act without a
\* parseable start time goes last, the two acts starting together are ordered
\* by lastUpdated
C5_Witness ==
    /\ PairsBuilt /\ FestivalMode
    /\ Len(band) = 3
    /\ band = <<Unsorted[3], Unsorted[2], Unsorted[1]>>
    /\ HasTime(band[1]) /\ SameTime(band[1], band[2]) /\ ~HasTime(band[3])
    /\ band[3].startTime # None
    /\ StrRank(band[3].lastUpdated) < StrRank(band[1].lastUpdated)
    /\ StrRank(band[1].lastUpdated) < StrRank(band[2].lastUpdated)

\* the first position of x in xs
FirstAt(xs, x) == CHOOSE i \in 1..Len(xs) : xs[i] = x /\ \A j \in 1..(i - 1) : xs[j] # x

\* C6: the track id list holds no id twice, holds exactly the ids resolved,
\* and lists them in the order of their first occurrence among the ids
\* resolved, matches and fallback ids alike.
C6_TrackIdsFirstOccurrenceOrder ==
    /\ \A i, j \in 1..Len(track_uris) : i # j => track_uris[i] # track_uris[j]
    /\ Range(track_uris) = {resolved[i] : i \in {k \in 1..Len(resolved) : Truthy(resolved[k])}}
    /\ \A i, j \in 1..Len(track_uris) :
          i < j => FirstAt(resolved, track_uris[i]) < FirstAt(resolved, track_uris[j])

\* a list is emitted after a song matched an id that a fallback had already
\* contributed and another song matched nothing
C6_Witness ==
    /\ rpc = "row_done" /\ outcome = "emitted"
    /\ Len(track_uris) >= 2
    /\ \E i, j \in 1..Len(resolved) :
          /\ i < j /\ resolved[i] = resolved[j] /\ Truthy(resolved[i])
          /\ IsPassThrough(pairs[i]) /\ ~IsPassThrough(pairs[j])
    /\ \E k \in 1..Len(resolved) : ~Truthy(resolved[k])

\* the ids _spotify_top_tracks_fallback gives for performer b
FallbackIds(b) == top_tracks_fallback(catalog, b.name, FallbackLimit)

\* the number of pairs performer b contributes
Contribution(b) == IF b.songs # <<>> THEN Len(b.songs) ELSE Len(FallbackIds(b))

\* the number of pairs of the performers before the k-th
RECURSIVE PairsBefore(_)
PairsBefore(k) == IF k <= 1 THEN 0 ELSE PairsBefore(k - 1) + Contribution(band[k - 1])

\* C7: the pairs are the entries of the sorted performers, performer after
\* performer, the songs of one performer in setlist order, and in a normal
\* show the headliner's songs in setlist order after all the openers' entries.
C7_PairsFollowSortedPerformers ==
    PairsBuilt =>
        /\ \A k \in 1..Len(band) :
              LET b == band[k]
                  off == PairsBefore(k)
              IN  /\ off + Contribution(b) <= Len(pairs)
                  /\ \A i \in 1..Contribution(b) :
                        pairs[off + i] = IF b.songs # <<>>
                                         THEN [t |-> b.songs[i], hint |-> b.name]
                                         ELSE [t |-> FallbackIds(b)[i], hint |-> None]
        /\ LET off == PairsBefore(Len(band) + 1)
               hs  == IF FestivalMode THEN <<>> ELSE event_data.headliner_songs
           IN  /\ Len(pairs) = off + Len(hs)
               /\ \A i \in 1..Len(hs) :
                     pairs[off + i] = [t |-> hs[i], hint |-> HeadlinerName]

\* a normal show: the opener's songs come first, the headliner's after them
C7_Witness ==
    /\ rpc = "resolve" /\ ~FestivalMode
    /\ Len(band) = 1
    /\ Len(band[1].songs) >= 2
    /\ Len(event_data.headliner_songs) >= 2
    /\ band[1].songs # event_data.headliner_songs
    /\ pairs[1].hint = band[1].name
    /\ pairs[Len(pairs)].hint = HeadlinerName

\* the performers of the row whose song list is empty
WithoutSongs == {k \in 1..Len(band) : band[k].songs = <<>>}

\* a normal show whose headliner has no songs
HeadlinerWithoutSongs ==
    /\ event_data.kind = "normal"
    /\ ~FestivalMode
    /\ event_data.headliner_songs = <<>>

\* C8: no performer with an empty song list, the headliner of a normal show
\* included, causes the event to be dropped, and each contributes its
\* fallback ids to the playlist.
C8_EmptySongListsUseFallback ==
    (rpc = "row_done" /\ event_data.kind # "none" /\ event_data.kind # "pending") =>
        /\ HeadlinerWithoutSongs =>
              /\ outcome # "no_headliner_songs"
              /\ Range(top_tracks_fallback(catalog, HeadlinerName, FallbackLimit))
                    \subseteq Range(track_uris)
        /\ \A k \in WithoutSongs : Range(FallbackIds(band[k])) \subseteq Range(track_uris)

-----------------------------------------------------------------------------
(* Properties of _best_spotify_match_for_song *)

\* the candidates of a result list: the tracks that carry an id
Candidates(results) == {i \in 1..Len(results) : Truthy(results[i].uri)}

MatchDone == mpc = "done" /\ Truthy(song.title)

\* C9: the combined search is issued first; the title-only search is issued
\* exactly when the combined search returned no candidate; when the combined
\* pass is empty and the title-only pass returns a match, that match is
\* returned.
C9_TitleSearchOnlyAfterEmptyCombined ==
    /\ searches # <<>> => searches[1].q = CombinedQuery(song.title, song.hint)
    /\ Len(searches) <= 2
    /\ Len(searches) = 2 => searches[2].q = TitleQuery(song.title)
    /\ MatchDone =>
          /\ Len(searches) >= 1
          /\ Len(searches) = 2 <=> Candidates(searches[1].results) = {}
          /\ (Len(searches) = 2 /\ Candidates(searches[2].results) # {}) =>
                \E i \in Candidates(searches[2].results) :
                    mret[1].uri = searches[2].results[i].uri

\* the combined pass returned nothing, the title-only pass one exact match
C9_Witness ==
    /\ MatchDone
    /\ song = [title |-> "Hit", hint |-> "Alice"]
    /\ Len(searches) = 2
    /\ searches[1].results = <<>> /\ ~searches[1].raised
    /\ searches[2].results = <<Track("spotify:track:1", "Hit", <<"Alice">>, 70)>>
    /\ mret = <<[uri |-> "spotify:track:1", score2 |-> 200]>>

\* C10: the pair returned is a candidate of the pass used with the maximum
\* score of that pass; nothing is returned only when neither pass returned a
\* candidate; a candidate is never rejected for its score.
C10_ReturnsMaxScoreCandidate ==
    MatchDone =>
        LET used == searches[Len(searches)].results
            sc(i) == score_item2(song.title, song.hint, used[i])
        IN  /\ Candidates(used) # {} =>
                  \E i \in Candidates(used) :
                      /\ mret[1].uri = used[i].uri
                      /\ mret[1].score2 = sc(i)
                      /\ \A j \in Candidates(used) : sc(j) <= sc(i)
            /\ ~Truthy(mret[1].uri) =>
                  \A k \in 1..Len(searches) : Candidates(searches[k].results) = {}

\* the only candidate scores 0 and is returned all the same
C10_Witness ==
    /\ MatchDone
    /\ Len(searches) = 1
    /\ Cardinality(Candidates(searches[1].results)) = 1
    /\ mret[1].score2 = 0
    /\ Truthy(mret[1].uri)

-----------------------------------------------------------------------------
(* Properties of _spotify_top_tracks_fallback *)

FallbackDone == tpc = "done" /\ Truthy(fname)

\* the results of the last search made
FallbackUsed == fsearches[Len(fsearches)].results

\* C12: the search for "artist:<performer>" is made first and the search for
\* the bare name only if the first returned nothing; at most limit ids are
\* returned; they are the ids of the most popular candidates returned, most
\* popular first.
C12_FallbackMostPopularFirst ==
    /\ fsearches # <<>> => fsearches[1].q = ArtistQuery(fname)
    /\ Len(fsearches) <= 2
    /\ Len(fsearches) = 2 =>
          fsearches[1].results = <<>> /\ fsearches[2].q = NameQuery(fname)
    /\ FallbackDone =>
          LET uris == fret[1]
              cand == Candidates(FallbackUsed)
          IN  /\ Len(fsearches) = 1 <=> fsearches[1].results # <<>>
              /\ Len(uris) = Min(flimit, Cardinality(cand))
              /\ \E f \in [1..Len(uris) -> cand] :
                    /\ \A i, j \in 1..Len(uris) : i # j => f[i] # f[j]
                    /\ \A i \in 1..Len(uris) : uris[i] = FallbackUsed[f[i]].uri
                    /\ \A i, j \in 1..Len(uris) :
                          i < j => FallbackUsed[f[i]].popularity
                                      >= FallbackUsed[f[j]].popularity
                    /\ \A i \in 1..Len(uris) :
                          \A c \in cand \ {f[k] : k \in 1..Len(uris)} :
                              FallbackUsed[c].popularity <= FallbackUsed[f[i]].popularity

\* the first search returned nothing; the second returned three candidates,
\* the least popular first: the two most popular are returned, best first
C12_Witness ==
    /\ FallbackDone
    /\ flimit = 2
    /\ Len(fsearches) = 2 /\ ~fsearches[1].raised
    /\ Cardinality(Candidates(FallbackUsed)) = 3
    /\ FallbackUsed[1].popularity < FallbackUsed[2].popularity
    /\ FallbackUsed[2].popularity < FallbackUsed[3].popularity
    /\ fret[1] = <<FallbackUsed[3].uri, FallbackUsed[2].uri>>

-----------------------------------------------------------------------------
(* Properties of find_event_setlist *)

Returned == fpc = "done" /\ lookup # <<>>

\* the records the venue/city/date search returned
Records == lookup[1]

\* the performer names the records carry
PerformerNames == {Records[i].artist : i \in 1..Len(Records)} \ {""}

OpenerNames == [i \in 1..Len(ret.openers) |-> ret.openers[i].name]

\* headliner first, then the openers
BillNames == <<ret.headliner>> \o OpenerNames

QueryScore(name) == token_set_ratio(_norm_text(q.artist), _norm_text(name))

LastRequest == requests[Len(requests)]

\* C1: in every normal result the headliner is one performer of the lookup,
\* no opener carries the headliner's name, and no name occurs twice among
\* headliner and openers, also when names are compared without case.
C1_OneHeadlinerNoDuplicates ==
    (fpc = "done" /\ ret.kind = "normal") =>
        /\ ret.headliner \in PerformerNames
        /\ \A i \in 1..Len(OpenerNames) : OpenerNames[i] # ret.headliner
        /\ \A i, j \in 1..Len(BillNames) :
              i # j => Lower(BillNames[i]) # Lower(BillNames[j])
        /\ Cardinality({i \in 1..Len(BillNames) : BillNames[i] = ret.headliner}) = 1

\* a normal result built from two records of one performer
C1_Witness ==
    /\ fpc = "done" /\ ret.kind = "normal"
    /\ Len(Records) = 2
    /\ Records[1].artist # Records[2].artist
    /\ Lower(Records[1].artist) = Lower(Records[2].artist)
    /\ ret.openers = <<>>

\* C2: when the venue/city/date lookup (sent with the resolved venue if an
\* exact-date record was found, with the query's venue otherwise) returns
\* records naming 3 or more distinct performers, the result is a festival.
C2_ThreePerformersIsFestival ==
    (Returned /\ Cardinality(PerformerNames) >= 3) =>
        /\ ret.kind = "festival" /\ ret.is_festival
        /\ LastRequest.venueName =
              IF headliner_entry # <<>> THEN resolved_venue ELSE q.venue
        /\ LastRequest.cityName =
              IF headliner_entry # <<>> THEN resolved_city ELSE q.city

\* three performers at the venue of an exact-date record give a festival
C2_Witness ==
    /\ Returned /\ Cardinality(PerformerNames) >= 3
    /\ headliner_entry # <<>> /\ ~maybe_festival
    /\ headliner_entry[1].venue = "Arena"
    /\ ret.kind = "festival"
    /\ Len(ret.lineup) = 3

ExactDateFound == headliner_entry # <<>>

\* C3: a festival only with 3 or more distinct performers; with fewer, a
\* normal show if an exact-date record exists and not found otherwise.
C3_FestivalNeedsThreePerformers ==
    Returned =>
        /\ ret.kind = "festival" => Cardinality(PerformerNames) >= 3
        /\ (Cardinality(PerformerNames) < 3 /\ ExactDateFound) => ret.kind = "normal"
        /\ (Cardinality(PerformerNames) < 3 /\ ~ExactDateFound) => ret.kind = "none"

Max(S) == CHOOSE x \in S : \A y \in S : y <= x

\* the named songs of a record, in order
RecordSongs(r) == _extract_songs(r)

\* C4: in a normal show the headliner has the highest score against the
\* queried artist when that score is at least 80, otherwise the longest
\* merged song list; every other performer found is an opener; a single
\* record of the queried artist gives that artist, its songs and no opener.
C4_HeadlinerChoice ==
    (fpc = "done" /\ ret.kind = "normal") =>
        LET top == Max({QueryScore(BillNames[i]) : i \in 1..Len(BillNames)})
        IN  /\ top >= 80 => QueryScore(ret.headliner) = top
            /\ top < 80 =>
                  \A i \in 1..Len(ret.openers) :
                      Len(ret.headliner_songs) >= Len(ret.openers[i].songs)
            /\ \A n \in PerformerNames :
                  \E i \in 1..Len(BillNames) : Lower(BillNames[i]) = Lower(n)
            /\ (Len(Records) = 1 /\ Lower(Records[1].artist) = Lower(q.artist)) =>
                  /\ ret.headliner = Records[1].artist
                  /\ ret.openers = <<>>
                  /\ Range(ret.headliner_songs) = Range(RecordSongs(Records[1]))
                  /\ Len(ret.headliner_songs) = Cardinality(Range(ret.headliner_songs))

\* nobody reaches 80 and the headliner is the lower-scored performer with
\* the longer song list
C4_Witness ==
    /\ fpc = "done" /\ ret.kind = "normal"
    /\ Len(ret.openers) = 1
    /\ QueryScore(ret.openers[1].name) < 80
    /\ QueryScore(ret.headliner) < QueryScore(ret.openers[1].name)
    /\ Len(ret.headliner_songs) > Len(ret.openers[1].songs)

-----------------------------------------------------------------------------
(* Properties of the entries find_event_setlist builds *)

\* the places a title occurs in the records idxs: <<record, position>>
Occurrences(idxs) ==
    UNION {{<<i, k>> : k \in 1..Len(RecordSongs(Records[i]))} : i \in idxs}

TitleAt(o) == RecordSongs(Records[o[1]])[o[2]]

TitlesOf(idxs) == {TitleAt(o) : o \in Occurrences(idxs)}

Earlier(o1, o2) == o1[1] < o2[1] \/ (o1[1] = o2[1] /\ o1[2] < o2[2])

\* the first place the title t occurs in the records idxs
FirstSeen(idxs, t) ==
    CHOOSE o \in Occurrences(idxs) :
        /\ TitleAt(o) = t
        /\ \A o2 \in Occurrences(idxs) : TitleAt(o2) = t => ~Earlier(o2, o)

\* songs is the songs of the records idxs merged in first-seen order, every
\* title once
IsMergeOf(songs, idxs) ==
    /\ Range(songs) = TitlesOf(idxs)
    /\ \A a, b \in 1..Len(songs) :
          a < b =>
              /\ songs[a] # songs[b]
              /\ Earlier(FirstSeen(idxs, songs[a]), FirstSeen(idxs, songs[b]))

\* the records of the festival act called name
FestivalRecordsOf(name) ==
    {i \in 1..Len(Records) : Lower(Strip(Records[i].artist)) = Lower(Strip(name))}

\* the records of the performer called name in a normal show
RecordsOf(name) ==
    {i \in 1..Len(Records) : Lower(Records[i].artist) = Lower(name)}

\* C19: in a festival result the lineup has one entry per distinct performer
\* and the songs of an entry are the songs of all the records of that
\* performer, merged in first-seen order with every title once.
C19_FestivalEntriesMergeSongs ==
    (Returned /\ ret.kind = "festival") =>
        /\ \A i, j \in 1..Len(ret.lineup) :
              i # j => FestivalRecordsOf(ret.lineup[i].name)
                          # FestivalRecordsOf(ret.lineup[j].name)
        /\ \A i \in 1..Len(Records) :
              Truthy(Strip(Records[i].artist)) =>
                  \E k \in 1..Len(ret.lineup) : i \in FestivalRecordsOf(ret.lineup[k].name)
        /\ \A k \in 1..Len(ret.lineup) :
              IsMergeOf(ret.lineup[k].songs, FestivalRecordsOf(ret.lineup[k].name))

\* the song list of each entry of a normal result: headliner, then openers
BillSongs ==
    <<ret.headliner_songs>> \o [i \in 1..Len(ret.openers) |-> ret.openers[i].songs]

\* C20: in a normal-show result each performer, headliner or opener, has one
\* entry, and its songs are the songs of all the records of that performer
\* merged in first-seen order, no title twice.
C20_NormalEntriesMergeSongs ==
    (Returned /\ ret.kind = "normal") =>
        /\ \A n \in PerformerNames :
              Cardinality({k \in 1..Len(BillNames) :
                              Lower(BillNames[k]) = Lower(n)}) = 1
        /\ \A k \in 1..Len(BillNames) :
              /\ k <= Len(BillSongs)
              /\ IsMergeOf(BillSongs[k], RecordsOf(BillNames[k]))

\* two records of one performer share a title and the performer's entry
\* holds it once, between the titles only one of the records has
C20_Witness ==
    /\ Returned /\ ret.kind = "normal"
    /\ \E i, j \in 1..Len(Records) :
          /\ i < j
          /\ Lower(Records[i].artist) = Lower(Records[j].artist)
          /\ Lower(ret.headliner) = Lower(Records[i].artist)
          /\ Range(RecordSongs(Records[i])) \cap Range(RecordSongs(Records[j])) # {}
          /\ Range(RecordSongs(Records[j])) \ Range(RecordSongs(Records[i])) # {}
          /\ Len(ret.headliner_songs) > Len(RecordSongs(Records[i]))
          /\ Len(ret.headliner_songs)
                < Len(RecordSongs(Records[i])) + Len(RecordSongs(Records[j]))

-----------------------------------------------------------------------------
(* Properties of the sink stage of PlaylistBuilder.run *)

\* the requests of the current row that change the sink
SinkWrites == {i \in 1..Len(sink_ops) : sink_ops[i].op \in {"create", "add"}}

\* C13: when the sink holds a playlist with the name of the event's playlist,
\* for a normal show or for a festival day, no playlist is created and no
\* tracks are added for that event.
C13_ExistingPlaylistNotDuplicated ==
    sink_has = "yes" => SinkWrites = {}

\* C14: an event whose processing fails does not stop the run: the run never
\* ends on an exception while rows of the input are left.
C14_LaterEventsProcessed ==
    rpc = "aborted" => idx >= n_events

\* the row was left as not found: nothing was built, searched or sent for it
SkippedAsNotFound ==
    /\ rpc = "row_done"
    /\ outcome = "not_found"
    /\ pairs = <<>>
    /\ queries = <<>>
    /\ track_uris = <<>>
    /\ sink_ops = <<>>

\* C16: when a request of the setlist lookup ends in a transport error or a
\* status other than 200, or the lookup finds nothing, find_event_setlist
\* returns "not found" without raising, and the run leaves the row as not
\* found and goes on.
C16_FailedLookupIsNotFound ==
    /\ lookup_fault # <<>> => event_data = NoResult
    /\ event_data = NoResult => SkippedAsNotFound

\* a transport error during the lookup of a row that is not the last one
C16_Witness ==
    /\ lookup_fault # <<>>
    /\ lookup_fault[1].kind = "transport"
    /\ SkippedAsNotFound
    /\ idx < n_events

-----------------------------------------------------------------------------
(* Properties of the requests of find_event_setlist *)

\* the i-th request was sent again right after it
SentAgain(i) == i < Len(requests) /\ requests[i + 1] = requests[i]

\* C15: a request of the setlist client that fails with a transport error is
\* retried: the client does not give up on it after a single attempt.
C15_TransportErrorRetried ==
    \A i \in 1..Len(requests) :
        (i <= Len(answers) /\ answers[i] = "transport") =>
            \/ SentAgain(i)
            \/ i > 1 /\ SentAgain(i - 1)

-----------------------------------------------------------------------------
(* Properties of search_track and _call_api *)

\* the requests sent by the call of search_track in progress
RequestsOfCall == {i \in 1..Len(sent) : sent[i].call = call_no}

\* _call_api gave up on the call in progress after its last request failed
\* in one of the given ways
GaveUpAfter(answers_) ==
    /\ cpc = "returned"
    /\ cret = "empty"
    /\ RequestsOfCall # {}
    /\ sent[Len(sent)].answer \in answers_

\* C17: the catalog client keeps the discipline of the setlist client: a
\* request failing with a transport error is retried up to 3 times before
\* the client gives up, after a rate-limit answer the client waits the time
\* the provider gives (2 seconds without one) before it retries, and once
\* the attempts are used up search_track gives an empty result.
C17_CatalogRetryDiscipline ==
    /\ GaveUpAfter({"transport"}) => Cardinality(RequestsOfCall) >= 3
    /\ \A i \in 1..Len(sent) :
          (sent[i].answer = "rate" /\ i < Len(sent) /\ sent[i + 1].call = sent[i].call) =>
              sent[i + 1].gap = (IF sent[i].header = None THEN 2 ELSE IntOf(sent[i].header))
    /\ (cpc = "returned" /\ attempt > DefaultRetries) => cret = "empty"

\* C18: between two consecutive requests to the catalog some time elapses,
\* also when no request failed.
C18_RequestsAreSpaced ==
    \A i \in 1..Len(sent) : (i >= 2 \/ asked) => sent[i].gap >= 1

-----------------------------------------------------------------------------
(* Properties of the rows PlaylistBuilder.run leaves without a playlist *)

\* every pair of the row went through the loop and no id was collected
NothingResolved ==
    /\ rpc \in {"resolve", "build_playlist", "row_done", "aborted"}
    /\ pi > Len(pairs)
    /\ track_uris = <<>>

\* C21: when no track id resolves for an event, nothing is sent to the sink
\* for it (no create_playlist, no add_tracks) and the run moves on to the
\* next event.
C21_NoTracksNoPlaylist ==
    NothingResolved =>
        /\ sink_ops = <<>>
        /\ rpc \in {"resolve", "row_done"}
        /\ rpc = "row_done" => outcome = "no_tracks"

\* a row with songs to resolve, none of which matched, and rows after it
C21_Witness ==
    /\ NothingResolved
    /\ rpc = "row_done"
    /\ outcome = "no_tracks"
    /\ pairs # <<>>
    /\ resolved # <<>>
    /\ idx < n_events

\* the row being processed lacks its artist or its date
RowIncomplete ==
    /\ rpc \notin {"idle", "end"}
    /\ ~Truthy(CurrentRow.artist) \/ ~Truthy(CurrentRow.date)

\* C22: a row without artist or without date never reaches the core: no
\* setlist lookup, no catalog search and no sink call is made for it, and
\* the run goes on with the rows after it.
C22_IncompleteRowSkipped ==
    RowIncomplete =>
        /\ event_data = Pending
        /\ lookup_fault = <<>>
        /\ queries = <<>>
        /\ pairs = <<>>
        /\ sink_ops = <<>>
        /\ rpc \in {"row", "row_done"}
        /\ rpc = "row_done" => outcome = "malformed"

\* a row without artist was skipped and rows are left
C22_Witness ==
    /\ RowIncomplete
    /\ ~Truthy(CurrentRow.artist)
    /\ Truthy(CurrentRow.date)
    /\ rpc = "row_done"
    /\ outcome = "malformed"
    /\ idx < n_events

-----------------------------------------------------------------------------
(* Properties of add_tracks_to_playlist and _build_playlist_for_event *)

\* the ids of the first k batches sent, one after the other
RECURSIVE SentIds(_)
SentIds(k) == IF k = 0 THEN <<>> ELSE SentIds(k - 1) \o batches[k].uris

AllSentIds == SentIds(Len(batches))

AddReturned == bpc \in {"check", "done"} /\ pid = "pid" /\ add_ok # "pending"

\* C23: add_tracks_to_playlist sends the ids in batches of at most 100, in
\* order: the batches sent, one after the other, are the beginning of the
\* list and the whole list once every batch succeeded; an empty list sends
\* nothing and reports success.
C23_BatchesOfAtMost100InOrder ==
    /\ \A k \in 1..Len(batches) :
          Len(batches[k].uris) >= 1 /\ Len(batches[k].uris) <= 100
    /\ Len(AllSentIds) <= Len(b_uris)
    /\ AllSentIds = SubSeq(b_uris, 1, Len(AllSentIds))
    /\ (AddReturned /\ add_ok = "true") => AllSentIds = b_uris
    /\ (AddReturned /\ b_uris = <<>>) => (batches = <<>> /\ add_ok = "true")

\* a list of more than 200 ids was added in three batches
C23_Witness ==
    /\ AddReturned
    /\ add_ok = "true"
    /\ Len(b_uris) > 200
    /\ Len(batches) = 3
    /\ Len(batches[3].uris) = 1

-----------------------------------------------------------------------------
(* Properties of the ids of _spotify_top_tracks_fallback in PlaylistBuilder.run *)

\* the pairs that carry an id of _spotify_top_tracks_fallback
FallbackPairs == {k \in 1..Len(pairs) : pairs[k].hint = None}

\* the pairs the loop has gone through
Handled == 1..Len(resolved)

\* C24: every id obtained from _spotify_top_tracks_fallback goes to the track
\* list as it is, and _best_spotify_match_for_song is never called with
\* such an id as its title.
C24_FallbackIdsNotSearched ==
    /\ \A k \in FallbackPairs \cap Handled :
          /\ k <= Len(pairs)
          /\ resolved[k] = pairs[k].t
          /\ pairs[k].t \in Range(track_uris)
    /\ \A i \in 1..Len(queries) :
          \A k \in FallbackPairs : queries[i][1] # pairs[k].t
    /\ Len(track_uris) <= Len(resolved)

\* a fallback id went to the track list next to a song found by search
C24_Witness ==
    /\ rpc = "resolve"
    /\ \E k \in FallbackPairs \cap Handled :
          \E j \in Handled \ FallbackPairs :
              /\ j <= Len(pairs)
              /\ Truthy(resolved[j])
              /\ resolved[j] # resolved[k]
              /\ {resolved[j], resolved[k]} \subseteq Range(track_uris)

\* the existence check of the row could not be made
CheckFailed == sink_has \in {"down", "absent"}

Created == \E i \in 1..Len(sink_ops) : sink_ops[i].op = "create"

\* C25: when find_playlist_by_name raises, or the sink does not offer it,
\* the run goes on to create the playlist as if none existed: the failed
\* check ends neither the event nor the run.
C25_ExistenceCheckBestEffort ==
    CheckFailed =>
        /\ rpc \in {"build_playlist", "row_done", "aborted"}
        /\ rpc = "row_done" => outcome = "emitted" /\ (dry_run \/ Created)
        /\ rpc = "aborted" => Created

\* find_playlist_by_name raised, the playlist was created and rows are left
C25_Witness ==
    /\ sink_has = "down"
    /\ rpc = "row_done"
    /\ outcome = "emitted"
    /\ Created
    /\ idx < n_events



-----------------------------------------------------------------------------
(* Properties of the headliner path of find_event_setlist *)

HasExactDate ==
    \E k \in 1..Len(artist_sets) :
        artist_sets[k].eventDate = _to_setlistfm_date(q.date)

\* what the loop over the records of the artist+date search decides
ExactDateDecides ==
    fpc = "pick_headliner" =>
        /\ (fpc' = "final_search") = HasExactDate
        /\ (fpc' = "venue_search") = ~HasExactDate
        /\ (headliner_entry' = <<>>) = ~HasExactDate
        /\ headliner_entry' # <<>> =>
              \E k \in 1..Len(artist_sets) : artist_sets[k] = headliner_entry'[1]

\* C26: the headliner path is taken only when the artist+date lookup holds a
\* record whose eventDate is the query date in the source's format, and the
\* record used as the show has that date; when no record has it, the
\* venue/city/date lookup is sent with the venue and city of the query.
C26_HeadlinerNeedsExactDate ==
    /\ [][ExactDateDecides]_vars
    /\ [](headliner_entry # <<>> =>
            headliner_entry[1].eventDate = _to_setlistfm_date(q.date))
    /\ []((headliner_entry = <<>> /\ Len(requests) >= 2) =>
            requests[2] = VenueParams(q.venue, q.city))
    /\ []((headliner_entry # <<>> /\ Len(requests) >= 2) =>
            requests[2] = VenueParams(resolved_venue, resolved_city))

\* the lookup returned records of other dates only and the venue search was sent
C26_Witness ==
    /\ fpc = "done"
    /\ headliner_entry = <<>>
    /\ Len(requests) = 2
    /\ requests[1].artistName = q.artist
    /\ requests[2].venueName = "The Hall"
    /\ answers = <<"ok", "ok">>


-----------------------------------------------------------------------------
(* Properties of the attempts of _call_api *)

RequestsOf(c) == {i \in 1..Len(sent) : sent[i].call = c}

\* the requests get_access_token made to the token endpoint in pass p of the
\* call in progress
TokenRequestsOf(p) == {i \in 1..Len(tsent) : tsent[i].attempt = p}

\* the answers after which _call_api makes another pass
Retried == {"rate", "server", "transport"}

\* C27: _call_api always terminates: a call sends at most `retries` (2)
\* requests to the API, a 429 answer, a 5xx answer and a transport error each
\* use up one attempt, and once the attempts are used up the call returns
\* None; get_access_token adds at most max_retries (3) requests to the token
\* endpoint in each pass.
C27_CallApiTerminates ==
    /\ [](\A c \in 1..MaxCalls : Cardinality(RequestsOf(c)) <= DefaultRetries)
    /\ [](\A i \in 1..Len(sent) :
             sent[i].attempt = Cardinality({j \in RequestsOf(sent[i].call) : j <= i}))
    /\ []((cpc \in {"attempt", "request"} /\ RequestsOf(call_no) # {}) =>
             /\ sent[Len(sent)].answer \in Retried
             /\ attempt = Cardinality(RequestsOf(call_no)) + 1)
    /\ []((cpc = "returned" /\ attempt > DefaultRetries) =>
             /\ cret = "empty"
             /\ Cardinality(RequestsOf(call_no)) = DefaultRetries
             /\ \A i \in RequestsOf(call_no) : sent[i].answer \in Retried)
    /\ [](\A p \in 1..DefaultRetries : Cardinality(TokenRequestsOf(p)) <= TokenRetries)
    /\ [](\A i \in 1..Len(tsent) : tsent[i].attempt <= DefaultRetries)
    /\ (cpc \in {"attempt", "request"}) ~> (cpc = "returned")

\* every request of a call was answered 429 and the call returned None
C27_Witness ==
    /\ cpc = "returned"
    /\ cret = "empty"
    /\ Cardinality(RequestsOf(call_no)) = DefaultRetries
    /\ \A i \in RequestsOf(call_no) : sent[i].answer = "rate"


-----------------------------------------------------------------------------
(* Properties of the rows PlaylistBuilder.run treats as festivals *)

\* the row is flagged as a festival and the lookup resolved a normal show
FlaggedNormalShow ==
    /\ rpc \notin {"idle", "row", "end"}
    /\ is_festival_flag(CurrentRow)
    /\ event_data.kind = "normal"

\* C28: a row with a true festival flag whose lookup resolved a normal show
\* takes the festival branch, finds no lineup and gets no playlist: no
\* catalog search and no sink call is made for it, whatever songs the
\* headliner has.
C28_FlaggedNormalShowSkipped ==
    FlaggedNormalShow =>
        /\ rpc \in {"build", "row_done"}
        /\ rpc = "row_done" => outcome = "no_lineup"
        /\ pairs = <<>>
        /\ queries = <<>>
        /\ sink_ops = <<>>

\* a flagged row whose headliner has songs was left without a playlist
C28_Witness ==
    /\ FlaggedNormalShow
    /\ rpc = "row_done"
    /\ outcome = "no_lineup"
    /\ event_data.headliner_songs # <<>>
    /\ idx < n_events


-----------------------------------------------------------------------------
(* Properties of a dry run of PlaylistBuilder.run *)

\* C29: in a dry run the sink's create_playlist, add_tracks and
\* add_tracks_to_playlist are never called, for any event and whatever the
\* events resolve to: the playlists of the sink are those it had before.
C29_DryRunLeavesSinkAlone ==
    dry_run => \A i \in 1..Len(sink_ops) : sink_ops[i].op \in {"find", "user"}

\* a dry run built the playlist of a row with tracks and goes on
C29_Witness ==
    /\ dry_run
    /\ rpc = "row_done"
    /\ outcome = "emitted"
    /\ track_uris # <<>>
    /\ sink_ops # <<>>
    /\ idx < n_events


-----------------------------------------------------------------------------
(* Properties of a failed batch in _build_playlist_for_event *)

\* the last batch sent was refused
LastBatchFailed == batches # <<>> /\ ~batches[Len(batches)].ok

\* C30: tracks are added only to a playlist whose creation returned an id;
\* add_tracks_to_playlist stops at the first batch that fails and returns
\* False, the batches before it having been added and none being sent after
\* it, and the builder then warns and returns the id of the playlist.
C30_FailedBatchOnlyWarns ==
    /\ (batches # <<>> \/ bpc \in {"add", "check"}) => pid = "pid"
    /\ \A k \in 1..Len(batches) : k < Len(batches) => batches[k].ok
    /\ LastBatchFailed =>
          /\ bpc \in {"check", "done"}
          /\ add_ok = "false"
          /\ bpc = "done" => (warned /\ b_ret = "pid")
    /\ add_ok = "false" => LastBatchFailed
    /\ warned => (add_ok = "false" /\ bpc = "done")

\* the second batch of three failed and the builder returned the playlist
C30_Witness ==
    /\ bpc = "done"
    /\ Len(b_uris) > 200
    /\ Len(batches) = 2
    /\ batches[1].ok
    /\ LastBatchFailed
    /\ warned
    /\ b_ret = "pid"

====
